---------------------------- MODULE Spec2Model ----------------------------
(***************************************************************************)
(* Adverse news + sanctions search: the four variants of the script        *)
(*   app   src/adverse_news_app.py            (transformer classifier)     *)
(*   v5    src/adverse_news5_app_Version2.py  (lexicon classifier)         *)
(*   v2    src/adverse_news8_app_v2.py        (merged sanctions matches)   *)
(*   v2_1  src/adverse_news9_app_v2_1.py      (cached lists, name guard)   *)
(*                                                                         *)
(* A Python str is a sequence of one-character strings, so that lower(),   *)
(* replace(), re.sub() and difflib are computed character by character.    *)
(***************************************************************************)
EXTENDS Integers, Sequences, FiniteSets, TLC

VARIABLES
    \* --- normalize_name applied to one input, then to its own output
    n_variant, n_in, n_out, n_out2, n_pc,
    \* --- color_highlight_terms applied to one text
    h_variant, h_text, h_name, h_keywords, h_order, h_out, h_pc,
    \* --- fuzzy_match applied to one pair of strings
    f_a, f_b, f_score, f_pc,
    \* --- fetch_opensanctions_all: the arguments of the call, the offset of
    \* the next page, the names read so far, the offsets requested, the
    \* position in the call and what it returned
    os_limit, os_max_items, os_offset, os_names, os_requests, os_pc, os_result,
    \* --- st.cache_data of v2_1: the entry stored for each list fetcher, the
    \* clock in hours, the runs of each fetcher's body, and the number of
    \* searches made before this one
    cache, now, fetch_log, searches,
    \* --- one click on the Search button: the widgets' values,
    variant, name, high_severity, model_choice, sort_option,
    \* the position in the handler, the stages passed and an escaped exception,
    pc, ran, raised,
    \* the news side: what each source answered, the fetched articles, the
    \* loop index, what the classifier answered, the result list, and the
    \* list as search_all returned it, before the handler sorts it in place,
    news_status, articles, art_idx, clf_log, results, returned,
    \* the sanctions side: what each list source answered, the candidate list
    \* (app, v5) or the de-duplicated candidates (v2, v2_1), the matches in
    \* the order the loop found them, the sorted matches,
    list_status, sanctioned, sanctions_names, scanned, matches,
    \* and what the page shows: the result entries in display order, the
    \* match lines written below them (app, v5), and the table offered for
    \* download
    shown, shown_matches, export

norm_vars == <<n_variant, n_in, n_out, n_out2, n_pc>>
hl_vars == <<h_variant, h_text, h_name, h_keywords, h_order, h_out, h_pc>>
widget_vars == <<variant, name, high_severity, model_choice, sort_option>>
fz_vars == <<f_a, f_b, f_score, f_pc>>
news_vars == <<news_status, articles, art_idx, clf_log, results, returned>>
list_vars == <<list_status, sanctioned, sanctions_names, scanned, matches>>
shown_vars == <<shown, shown_matches, export>>
run_vars == <<widget_vars, pc, ran, raised, news_vars, list_vars, shown_vars>>
os_vars == <<os_limit, os_max_items, os_offset, os_names, os_requests, os_pc,
            os_result>>
cache_vars == <<cache, now, fetch_log, searches>>
vars == <<norm_vars, hl_vars, fz_vars, os_vars, cache_vars, run_vars>>

-----------------------------------------------------------------------------
(***************************************************************************)
(* Python str primitives                                                   *)
(***************************************************************************)
Uppers == <<"A","B","C","D","E","F","G","H","I","J","K","L","M",
            "N","O","P","Q","R","S","T","U","V","W","X","Y","Z">>
Lowers == <<"a","b","c","d","e","f","g","h","i","j","k","l","m",
            "n","o","p","q","r","s","t","u","v","w","x","y","z">>
Digits == {"0","1","2","3","4","5","6","7","8","9"}
LowerSet == {Lowers[i] : i \in 1..26}
UpperSet == {Uppers[i] : i \in 1..26}
Whitespace == {" ", "\t"}

\* str.lower() on one character
ToLower(c) ==
    IF c \in UpperSet THEN Lowers[CHOOSE i \in 1..26 : Uppers[i] = c] ELSE c

\* str.lower()
str_lower(s) == [i \in 1..Len(s) |-> ToLower(s[i])]

\* t occurs in s at index i
OccursAt(s, t, i) ==
    /\ i + Len(t) - 1 <= Len(s)
    /\ \A k \in 1..Len(t) : s[i + k - 1] = t[k]

\* "t in s"
str_contains(s, t) == \E i \in 1..(Len(s) - Len(t) + 1) : OccursAt(s, t, i)

RECURSIVE Flatten(_, _, _)
\* the concatenation of the pieces ss[lo], ..., ss[hi]
Flatten(ss, lo, hi) ==
    IF lo > hi THEN <<>>
    ELSE IF lo = hi THEN ss[lo]
    ELSE LET mid == (lo + hi) \div 2
         IN  Flatten(ss, lo, mid) \o Flatten(ss, mid + 1, hi)

RECURSIVE Selected(_, _, _)
\* a left-to-right scan that resumes after each match takes the match at i,
\* of the matches M of a pattern of length len, iff it took none overlapping
\* it from the left
Selected(M, len, i) ==
    /\ i \in M
    /\ \A j \in {k \in M : i - len < k /\ k < i} : ~Selected(M, len, j)

\* the matches a scan of 1..n takes
Taken(M, len) == {i \in M : Selected(M, len, i)}

\* s with the matches of length len taken at the indexes T replaced: rep[i]
\* stands where the match at i stood
Substitute(s, T, len, rep) ==
    Flatten([i \in 1..Len(s) |->
                IF i \in T THEN rep[i]
                ELSE IF \E j \in T : j < i /\ i < j + len THEN <<>>
                ELSE <<s[i]>>], 1, Len(s))

\* s.replace(t, r) for a non-empty t: leftmost, non-overlapping occurrences
str_replace(s, t, r) ==
    LET M == {i \in 1..Len(s) : OccursAt(s, t, i)}
        T == Taken(M, Len(t))
    IN  Substitute(s, T, Len(t), [i \in T |-> r])

\* s.count(t) for a non-empty t
str_count(s, t) ==
    Cardinality(Taken({i \in 1..Len(s) : OccursAt(s, t, i)}, Len(t)))

RECURSIVE LStrip(_)
LStrip(s) == IF s # <<>> /\ Head(s) \in Whitespace THEN LStrip(Tail(s)) ELSE s

RECURSIVE RStrip(_)
RStrip(s) ==
    IF s # <<>> /\ s[Len(s)] \in Whitespace
    THEN RStrip(SubSeq(s, 1, Len(s) - 1)) ELSE s

\* str.strip()
str_strip(s) == RStrip(LStrip(s))

RECURSIVE CollapseFrom(_, _)
CollapseFrom(s, i) ==
    IF i > Len(s) THEN <<>>
    ELSE IF s[i] \in Whitespace
         THEN IF i > 1 /\ s[i - 1] \in Whitespace
              THEN CollapseFrom(s, i + 1)
              ELSE <<" ">> \o CollapseFrom(s, i + 1)
         ELSE <<s[i]>> \o CollapseFrom(s, i + 1)

\* re.sub(r'\s+', ' ', s)
CollapseWhitespace(s) == CollapseFrom(s, 1)

\* re.sub(r'[^a-z0-9\s]', ' ', s)
StripNonAlnum(s) ==
    [i \in 1..Len(s) |->
        IF s[i] \in LowerSet \cup Digits \cup Whitespace THEN s[i] ELSE " "]

-----------------------------------------------------------------------------
(***************************************************************************)
(* normalize_name (v2 and v2_1)                                            *)
(***************************************************************************)
Variants == {"app", "v5", "v2", "v2_1"}
NormVariants == {"v2", "v2_1"}

tok_pjsc_long == <<"p","u","b","l","i","c"," ","j","o","i","n","t"," ",
                   "s","t","o","c","k"," ","c","o","m","p","a","n","y">>
tok_pjsc == <<"p","j","s","c">>
tok_plc == <<"p","l","c">>
tok_llc == <<"l","l","c">>
tok_ltd == <<"l","t","d">>
tok_limited == <<"l","i","m","i","t","e","d">>
tok_inc == <<"i","n","c">>
tok_corp == <<"c","o","r","p">>
tok_corporation == <<"c","o","r","p","o","r","a","t","i","o","n">>
tok_co_dot == <<"c","o",".">>
tok_company == <<"c","o","m","p","a","n","y">>
tok_sa == <<"s","a">>
tok_gmbh == <<"g","m","b","h">>
tok_comma == <<",">>

\* the remove_tokens list, in list order ('pjsc' is listed twice in v2)
remove_tokens(v) ==
    IF v = "v2"
    THEN << tok_pjsc_long, tok_pjsc, tok_plc, tok_llc, tok_ltd, tok_limited,
            tok_inc, tok_corp, tok_corporation, tok_co_dot, tok_company,
            tok_sa, tok_gmbh, tok_pjsc, tok_comma >>
    ELSE << tok_pjsc_long, tok_pjsc, tok_plc, tok_llc, tok_ltd, tok_limited,
            tok_inc, tok_corp, tok_corporation, tok_co_dot, tok_company,
            tok_sa, tok_gmbh, tok_comma >>

\* a removal that deletes the token instead of leaving a space in its place
RemoveTokenJoining(n, t) == str_replace(n, t, <<>>)

\* n = n.replace(t, ' ')
RemoveToken(n, t) == str_replace(n, t, <<" ">>)

RECURSIVE RemoveTokens(_, _, _)
RemoveTokens(n, toks, k) ==
    IF k > Len(toks) THEN n
    ELSE RemoveTokens(RemoveToken(n, toks[k]), toks, k + 1)

normalize_name(v, n) ==
    IF n = <<>> THEN <<>>
    ELSE LET low == str_lower(n)
             cut == RemoveTokens(low, remove_tokens(v), 1)
             alnum == IF v = "v2_1" THEN StripNonAlnum(cut) ELSE cut
         IN  str_strip(CollapseWhitespace(alnum))

-----------------------------------------------------------------------------
(***************************************************************************)
(* difflib.SequenceMatcher(None, a, b).ratio()                             *)
(* No junk predicate, and the autojunk heuristic needs len(b) >= 200, so   *)
(* every character of b takes part.  A similarity is kept as the exact     *)
(* fraction [num, den] = 2*M / (len(a) + len(b)).                          *)
(***************************************************************************)
RECURSIVE RunLen(_, _, _, _, _, _)
\* length of the common run of a[i..ahi] and b[j..bhi] starting at (i, j)
RunLen(a, b, i, j, ahi, bhi) ==
    IF i > ahi \/ j > bhi \/ a[i] # b[j] THEN 0
    ELSE 1 + RunLen(a, b, i + 1, j + 1, ahi, bhi)

\* find_longest_match: the longest block, of those the one starting earliest
\* in a, of those the one starting earliest in b
find_longest_match(a, b, alo, ahi, blo, bhi) ==
    LET blocks == { <<i, j, RunLen(a, b, i, j, ahi, bhi)>> :
                        i \in alo..ahi, j \in blo..bhi }
        best == CHOOSE x \in blocks :
                    \A y \in blocks :
                        \/ x[3] > y[3]
                        \/ x[3] = y[3] /\ x[1] < y[1]
                        \/ x[3] = y[3] /\ x[1] = y[1] /\ x[2] <= y[2]
    IN  IF blocks = {} THEN <<alo, blo, 0>> ELSE best

RECURSIVE MatchedChars(_, _, _, _, _, _)
\* the sum of the sizes of get_matching_blocks() inside the window
MatchedChars(a, b, alo, ahi, blo, bhi) ==
    LET m == find_longest_match(a, b, alo, ahi, blo, bhi)
    IN  IF m[3] = 0 THEN 0
        ELSE m[3]
             + MatchedChars(a, b, alo, m[1] - 1, blo, m[2] - 1)
             + MatchedChars(a, b, m[1] + m[3], ahi, m[2] + m[3], bhi)

\* the ratio without the convention for two empty strings
fuzzy_match_no_convention(a, b) ==
    [num |-> 2 * MatchedChars(a, b, 1, Len(a), 1, Len(b)),
     den |-> IF Len(a) + Len(b) = 0 THEN 1 ELSE Len(a) + Len(b)]

\* ratio(): 2.0 * matches / length, and 1.0 when both strings are empty
fuzzy_match(a, b) ==
    IF Len(a) + Len(b) = 0 THEN [num |-> 1, den |-> 1]
    ELSE [num |-> 2 * MatchedChars(a, b, 1, Len(a), 1, Len(b)),
          den |-> Len(a) + Len(b)]

\* the comparison without the equality: score > p / 100
AtLeastStrict(score, p) == 100 * score.num > p * score.den

\* score >= p / 100 for a threshold written in hundredths
AtLeast(score, p) == 100 * score.num >= p * score.den

\* round(score, 2) in hundredths, round-half-even (the halves a ratio of two
\* short strings can hit, n/8, are exact binary fractions)
Round2(score) ==
    LET q == (100 * score.num) \div score.den
        r == (100 * score.num) % score.den
    IN  IF 2 * r > score.den THEN q + 1
        ELSE IF 2 * r < score.den THEN q
        ELSE IF q % 2 = 0 THEN q ELSE q + 1

-----------------------------------------------------------------------------
(***************************************************************************)
(* color_highlight_terms (app, v5, v2)                                     *)
(***************************************************************************)
HlVariants == {"app", "v5", "v2"}

name_open == <<"<", "s", "p", "a", "n", " ", "s", "t", "y", "l", "e", "=", "'",
    "b", "a", "c", "k", "g", "r", "o", "u", "n", "d", "-", "c", "o", "l", "o",
    "r", ":", " ", "#", "f", "f", "f", "1", "7", "6", ";", " ", "f", "o", "n",
    "t", "-", "w", "e", "i", "g", "h", "t", ":", "b", "o", "l", "d", ";", "'",
    ">">>
kw_open == <<"<", "s", "p", "a", "n", " ", "s", "t", "y", "l", "e", "=", "'",
    "b", "a", "c", "k", "g", "r", "o", "u", "n", "d", "-", "c", "o", "l", "o",
    "r", ":", " ", "#", "e", "f", "9", "a", "9", "a", ";", " ", "f", "o", "n",
    "t", "-", "w", "e", "i", "g", "h", "t", ":", "b", "o", "l", "d", ";", "'",
    ">">>
span_close == <<"<", "/", "s", "p", "a", "n", ">">>

\* \w for the characters of the model
IsWordChar(c) == c \in LowerSet \cup UpperSet \cup Digits \cup {"_"}

\* \b at position p of s: between s[p-1] and s[p], the ends counting as \W
WordBoundary(s, p) ==
    LET before == p > 1 /\ IsWordChar(s[p - 1])
        after == p <= Len(s) /\ IsWordChar(s[p])
    IN  before # after

\* (?i)\b(term)\b matches at index i of s
TermMatchesAt(s, term, i) ==
    /\ i + Len(term) - 1 <= Len(s)
    /\ \A k \in 1..Len(term) : ToLower(s[i + k - 1]) = ToLower(term[k])
    /\ WordBoundary(s, i)
    /\ WordBoundary(s, i + Len(term))

\* the replacement template with group 1 put back: '...>\1</span>' (v5)
TemplateBackref(open, matched) == open \o matched \o span_close

\* the replacement template of app and v2, r"...>\\1</span>": in a template
\* '\\' is a literal backslash, so the output holds the two characters \1
TemplateLiteral(open, matched) == open \o <<"\\", "1">> \o span_close

Template(v, open, matched) ==
    IF v = "v5" THEN TemplateBackref(open, matched)
    ELSE TemplateLiteral(open, matched)

\* re.sub(fr"(?i)\b({re.escape(term)})\b", template, s), term non-empty
re_sub_term(v, s, term, open) ==
    LET M == {i \in 1..Len(s) : TermMatchesAt(s, term, i)}
        T == Taken(M, Len(term))
    IN  Substitute(s, T, Len(term),
            [i \in T |-> Template(v, open, SubSeq(s, i, i + Len(term) - 1))])

RECURSIVE HighlightKeywords(_, _, _, _)
HighlightKeywords(v, s, order, k) ==
    IF k > Len(order) THEN s
    ELSE HighlightKeywords(v, re_sub_term(v, s, order[k], kw_open), order, k + 1)

\* order: sorted(set(keywords), key=lambda s: -len(s)), a stable sort of the
\* set's iteration order, so equally long keywords come in any order
IsKeywordOrder(order, keywords) ==
    /\ Len(order) = Cardinality(keywords)
    /\ {order[i] : i \in 1..Len(order)} = keywords
    /\ \A i \in 1..(Len(order) - 1) : Len(order[i]) >= Len(order[i + 1])

color_highlight_terms(v, text, nm, order) ==
    IF v # "v5" /\ text = <<>> THEN <<>>
    ELSE LET named == IF nm # <<>> THEN re_sub_term(v, text, nm, name_open)
                      ELSE text
         IN  HighlightKeywords(v, named, order, 1)

\* Undo of the highlighter's insertions: delete every intact marker tag,
\* again until none is left (a tag inserted into an earlier tag's attribute
\* text is deleted first, which makes the earlier tag intact again).
RECURSIVE StripMarkers(_)
StripMarkers(s) ==
    LET t == str_replace(str_replace(str_replace(s, kw_open, <<>>),
                                     name_open, <<>>), span_close, <<>>)
    IN  IF t = s THEN s ELSE StripMarkers(t)


-----------------------------------------------------------------------------
(***************************************************************************)
(* Values of the variables of a part that is not running                   *)
(***************************************************************************)
IdleNorm ==
    /\ n_variant = "" /\ n_in = <<>> /\ n_out = <<>> /\ n_out2 = <<>>
    /\ n_pc = "idle"

IdleHl ==
    /\ h_variant = "" /\ h_text = <<>> /\ h_name = <<>> /\ h_keywords = {}
    /\ h_order = <<>> /\ h_out = <<>> /\ h_pc = "idle"

IdleFz ==
    /\ f_a = <<>> /\ f_b = <<>> /\ f_score = [num |-> 0, den |-> 1]
    /\ f_pc = "idle"

\* the defaults of v2's signature are never used: the calls pass limit=1000
\* and max_items=4000 (v2) or 3000 (v2_1)
IdleOs ==
    /\ os_limit = 1000 /\ os_max_items = 4000 /\ os_offset = 0
    /\ os_names = <<>> /\ os_requests = <<>> /\ os_pc = "idle"
    /\ os_result = <<>>

ListFetchers == {"ofac", "uk", "opensanctions"}

\* nothing is cached when the process starts
NotCached == [stored |-> FALSE, at |-> 0, value |-> {}]

IdleCache ==
    /\ cache = [f \in ListFetchers |-> NotCached]
    /\ now = 0
    /\ fetch_log = [f \in ListFetchers |-> <<>>]
    /\ searches = 0

\* no download is offered
NoExport == [columns |-> <<>>, rows |-> <<>>]

IdleRun ==
    /\ variant = "" /\ name = <<>> /\ high_severity = FALSE
    /\ model_choice = <<>> /\ sort_option = ""
    /\ pc = "idle" /\ ran = {} /\ raised = ""
    /\ news_status = <<>> /\ articles = <<>> /\ art_idx = 0
    /\ clf_log = <<>> /\ results = <<>> /\ returned = <<>>
    /\ list_status = <<>> /\ sanctioned = <<>> /\ sanctions_names = {}
    /\ scanned = <<>> /\ matches = <<>>
    /\ shown = <<>> /\ shown_matches = <<>> /\ export = NoExport

-----------------------------------------------------------------------------
(***************************************************************************)
(* SpecNorm: normalize_name on every short string over NormAlphabet and on *)
(* two company names, then on its own result                               *)
(***************************************************************************)
MaxLen == 4
NormAlphabet == {"s", "a", "S", ",", " ", ".", "\t"}
BoundedStrings == UNION {[1..k -> NormAlphabet] : k \in 0..MaxLen}
acme_comma_ltd_dot == <<"A", "C", "M", "E", ",", " ", "L", "t", "d", ".">>
acme_ltd == <<"a", "c", "m", "e", " ", "l", "t", "d">>
NormInputs == BoundedStrings \cup {acme_comma_ltd_dot, acme_ltd}

InitNorm ==
    /\ n_variant \in NormVariants
    /\ n_in \in NormInputs
    /\ n_out = <<>> /\ n_out2 = <<>>
    /\ n_pc = "start"
    /\ IdleHl /\ IdleFz /\ IdleOs /\ IdleCache /\ IdleRun

Normalize ==
    /\ n_pc = "start"
    /\ n_out' = normalize_name(n_variant, n_in)
    /\ n_pc' = "once"
    /\ UNCHANGED <<n_variant, n_in, n_out2, hl_vars, fz_vars, os_vars, cache_vars,
                   run_vars>>

NormalizeAgain ==
    /\ n_pc = "once"
    /\ n_out2' = normalize_name(n_variant, n_out)
    /\ n_pc' = "twice"
    /\ UNCHANGED <<n_variant, n_in, n_out, hl_vars, fz_vars, os_vars, cache_vars,
                   run_vars>>

NextNorm == Normalize \/ NormalizeAgain

SpecNorm == InitNorm /\ [][NextNorm]_vars

\* C4: normalize_name is idempotent in v2 and in v2_1: normalizing the result
\* of normalize_name(x) again returns it unchanged, for every input x.
C4_NormalizeIdempotent == n_pc = "twice" => n_out2 = n_out

\* C4 witness: an input holding the suffix token 'sa' has been normalized
\* twice, and the first pass changed it.
C4_Witness ==
    /\ n_pc = "twice"
    /\ str_contains(str_lower(n_in), tok_sa)
    /\ n_out # n_in

\* C5: normalize_name("ACME, Ltd.") equals normalize_name("acme ltd") in each
\* variant that defines normalize_name.
C5_CaseAndPunctuationInsensitive ==
    (n_pc # "start" /\ n_in = acme_comma_ltd_dot)
        => n_out = normalize_name(n_variant, acme_ltd)

-----------------------------------------------------------------------------
(***************************************************************************)
(* SpecHl: color_highlight_terms on a text, a query name and a keyword set *)
(***************************************************************************)
MaxKeywords == 2
money_laundering_scheme == <<"m", "o", "n", "e", "y", " ", "l", "a", "u", "n",
    "d", "e", "r", "i", "n", "g", " ", "s", "c", "h", "e", "m", "e">>
money_laundering == <<"m", "o", "n", "e", "y", " ", "l", "a", "u", "n", "d",
    "e", "r", "i", "n", "g">>
laundering == <<"l", "a", "u", "n", "d", "e", "r", "i", "n", "g">>
fraud == <<"f", "r", "a", "u", "d">>
probe == <<"p", "r", "o", "b", "e">>
bold == <<"b", "o", "l", "d">>
acme == <<"a", "c", "m", "e">>
fraud_at_acme == <<"F", "r", "a", "u", "d", " ", "a", "t", " ", "A", "C", "M",
    "E">>
acme_fraud_probe == <<"a", "c", "m", "e", " ", "f", "r", "a", "u", "d", " ",
    "p", "r", "o", "b", "e">>

HlTexts == {<<>>, money_laundering_scheme, fraud_at_acme, acme_fraud_probe}
HlNames == {<<>>, acme}
KeywordPool == {laundering, money_laundering, fraud, probe, bold}
KeywordSets == {K \in SUBSET KeywordPool : Cardinality(K) <= MaxKeywords}
KeywordOrders(K) ==
    {o \in [1..Cardinality(K) -> K] : IsKeywordOrder(o, K)}

InitHl ==
    /\ h_variant \in HlVariants
    /\ h_text \in HlTexts
    /\ h_name \in HlNames
    /\ h_keywords \in KeywordSets
    /\ h_order = <<>> /\ h_out = <<>>
    /\ h_pc = "start"
    /\ IdleNorm /\ IdleFz /\ IdleOs /\ IdleCache /\ IdleRun

Highlight ==
    /\ h_pc = "start"
    /\ \E o \in KeywordOrders(h_keywords) :
        /\ h_order' = o
        /\ h_out' = color_highlight_terms(h_variant, h_text, h_name, o)
    /\ h_pc' = "done"
    /\ UNCHANGED <<h_variant, h_text, h_name, h_keywords, norm_vars, fz_vars,
                   os_vars, cache_vars,
                   run_vars>>

NextHl == Highlight

SpecHl == InitHl /\ [][NextHl]_vars

\* C6: for the keywords {"laundering", "money laundering"} and the text
\* "money laundering scheme" the output holds exactly one keyword marker,
\* around "money laundering", and none around the inner "laundering".
C6_LongestMatchMarkedOnce ==
    (/\ h_pc = "done"
     /\ h_text = money_laundering_scheme
     /\ h_keywords = {laundering, money_laundering})
        => /\ str_count(h_out, kw_open) = 1
           /\ str_contains(h_out, kw_open \o money_laundering \o span_close)

\* C7: in every variant that defines the highlighter, removing the inserted
\* marker tags from the output gives back the input text unchanged.
C7_MarkersOnlyWrap == h_pc = "done" => StripMarkers(h_out) = h_text


-----------------------------------------------------------------------------
\* The search run: values shared by the four variants.

\* Python's None, as a value no string equals
NoneValue == <<"None">>

\* the truth value of a string or None: `if x`
Truthy(x) == x # NoneValue /\ x # <<>>

\* a value formatted into an f-string
FormatStr(x) == IF x = NoneValue THEN <<"N", "o", "n", "e">> ELSE x

\* not s.strip()
IsBlank(s) == str_strip(s) = <<>>

\* str.upper()
ToUpper(c) ==
    IF c \in LowerSet THEN Uppers[CHOOSE i \in 1..26 : Lowers[i] = c] ELSE c

str_upper(s) == [i \in 1..Len(s) |-> ToUpper(s[i])]

\* str.startswith
str_startswith(s, t) == Len(t) <= Len(s) /\ SubSeq(s, 1, Len(t)) = t

Range(f) == {f[i] : i \in DOMAIN f}

\* the orders in which a Python set may be iterated
Orderings(S) ==
    {f \in [1..Cardinality(S) -> S] :
        \A i, j \in 1..Cardinality(S) : i # j => f[i] # f[j]}

\* a sort that sorts ascending and turns the list over for reverse: equal
\* keys come out in the opposite order
StableSortReversingTies(seq, key, reverse) ==
    LET n == Len(seq)
        Before(j, i) == IF reverse THEN key[j] > key[i] ELSE key[j] < key[i]
        Tied(i) == IF reverse THEN {j \in (i+1)..n : key[j] = key[i]}
                   ELSE {j \in 1..(i-1) : key[j] = key[i]}
        pos(i) == Cardinality({j \in 1..n : Before(j, i)})
                    + Cardinality(Tied(i)) + 1
    IN  [p \in 1..n |-> seq[CHOOSE i \in 1..n : pos(i) = p]]

\* sorted(seq, key=..., reverse=...): a stable sort on integer keys, key[i]
\* being the key of seq[i]; with reverse the larger key comes first and equal
\* keys still keep their order
StableSort(seq, key, reverse) ==
    LET n == Len(seq)
        Before(j, i) == IF reverse THEN key[j] > key[i] ELSE key[j] < key[i]
        pos(i) == Cardinality({j \in 1..n : Before(j, i)})
                    + Cardinality({j \in 1..(i-1) : key[j] = key[i]}) + 1
    IN  [p \in 1..n |-> seq[CHOOSE i \in 1..n : pos(i) = p]]

\* the order of the characters the keys are made of
CodeOrder == <<" ", "-", ".", "0", "1", "2", "3", "4", "5", "6", "7", "8", "9", ":">>
                \o Uppers \o <<"_">> \o Lowers

Ord(c) == CHOOSE i \in 1..Len(CodeOrder) : CodeOrder[i] = c

\* a < b on strings
RECURSIVE StrLess(_, _)
StrLess(a, b) ==
    IF b = <<>> THEN FALSE
    ELSE IF a = <<>> THEN TRUE
    ELSE IF Head(a) = Head(b) THEN StrLess(Tail(a), Tail(b))
    ELSE Ord(Head(a)) < Ord(Head(b))

\* string keys replaced by their lengths, which do not compare as the
\* strings do
StrRanksByLength(keys) == [i \in 1..Len(keys) |-> Len(keys[i])]

\* string keys replaced by their ranks, which compare as the strings do
StrRanks(keys) ==
    [i \in 1..Len(keys) |-> Cardinality({k \in Range(keys) : StrLess(k, keys[i])})]

-----------------------------------------------------------------------------
\* Sanctions matching.

FALLBACK_SANCTIONS_v2 == <<
    <<"l", "u", "k", "o", "i", "l">>,
    <<"r", "o", "s", "n", "e", "f", "t">>,
    <<"g", "a", "z", "p", "r", "o", "m">>,
    <<"s", "b", "e", "r", "b", "a", "n", "k">>,
    <<"v", "t", "b">>,
    <<"a", "l", "r", "o", "s", "a">>,
    <<"g", "a", "z", "p", "r", "o", "m", "b", "a", "n", "k">>,
    <<"v", "t", "b", " ", "b", "a", "n", "k">> >>

FALLBACK_SANCTIONS_v2_1 == <<
    <<"L", "u", "k", "o", "i", "l">>,
    <<"R", "o", "s", "n", "e", "f", "t">>,
    <<"G", "a", "z", "p", "r", "o", "m">>,
    <<"S", "b", "e", "r", "b", "a", "n", "k">>,
    <<"V", "T", "B">>,
    <<"A", "l", "r", "o", "s", "a">>,
    <<"G", "a", "z", "p", "r", "o", "m", "b", "a", "n", "k">>,
    <<"V", "T", "B", " ", "B", "a", "n", "k">>,
    <<"R", "o", "s", "n", "e", "f", "t", " ", "O", "i", "l", " ", "C", "o", "m", "p", "a", "n", "y">> >>

FALLBACK_SANCTIONS(v) ==
    IF v = "v2" THEN FALLBACK_SANCTIONS_v2 ELSE FALLBACK_SANCTIONS_v2_1

\* the threshold of the matcher, in hundredths
threshold(v) == IF v \in NormVariants THEN 60 ELSE 80

\* the similarity of the names as they were entered and delivered
similarity_raw(v, q, s) == fuzzy_match(q, s)

\* the similarity of a query name and a candidate: on the normalized names
\* in v2 and v2_1, on the lower-cased names in app and v5
similarity(v, q, s) ==
    IF v \in NormVariants
    THEN fuzzy_match(normalize_name(v, q), normalize_name(v, s))
    ELSE fuzzy_match(str_lower(q), str_lower(s))

is_match(v, q, s) == AtLeast(similarity(v, q, s), threshold(v))

match_record(v, q, s) ==
    [sanctioned_name |-> s, similarity |-> Round2(similarity(v, q, s))]

\* sorted by the similarity without the negation: ascending
sorted_matches_ascending(ms) ==
    StableSort(ms, [i \in 1..Len(ms) |-> ms[i].similarity], FALSE)

\* sorted(matches, key=lambda x: -x["similarity"])
sorted_matches(ms) ==
    StableSort(ms, [i \in 1..Len(ms) |-> 0 - ms[i].similarity], FALSE)

SanctionsLists == <<"S", "a", "n", "c", "t", "i", "o", "n", "s", "L", "i", "s", "t", "s">>
SANCTIONS_MATCH == <<"S", "A", "N", "C", "T", "I", "O", "N", "S", "_", "M", "A", "T", "C", "H">>
sanctions_title == <<"S", "a", "n", "c", "t", "i", "o", "n", "s", " ", "m", "a", "t", "c", "h", ":", " ">>

\* a result entry whose severity is graded by the similarity, as the
\* severity of an article is by the confidence
sanctions_result_graded(m) ==
    [title |-> sanctions_title \o FormatStr(m.sanctioned_name),
     source |-> SanctionsLists, date |-> <<>>, url |-> <<>>,
     score |-> m.similarity,
     severity |-> IF m.similarity >= 85 THEN "High" ELSE "Medium",
     model_label |-> SANCTIONS_MATCH]

\* the result entry v2 and v2_1 make of a match
sanctions_result(m) ==
    [title |-> sanctions_title \o FormatStr(m.sanctioned_name),
     source |-> SanctionsLists, date |-> <<>>, url |-> <<>>,
     score |-> m.similarity, severity |-> "High",
     model_label |-> SANCTIONS_MATCH]

IsSanctionsResult(r) == r.source = SanctionsLists


-----------------------------------------------------------------------------
\* News articles and their classification.

NewsData == <<"N", "e", "w", "s", "D", "a", "t", "a">>
NewsAPI == <<"N", "e", "w", "s", "A", "P", "I">>
GNews == <<"G", "N", "e", "w", "s">>

finbert == <<"P", "r", "o", "s", "u", "s", "A", "I", "/", "f", "i", "n", "b", "e", "r", "t">>
twitter_roberta_latest ==
    <<"c", "a", "r", "d", "i", "f", "f", "n", "l", "p", "/", "t", "w", "i", "t", "t", "e", "r", "-", "r", "o", "b", "e", "r", "t", "a", "-", "b", "a", "s", "e", "-", "s", "e", "n", "t", "i", "m", "e", "n", "t", "-", "l", "a", "t", "e", "s", "t">>
twitter_roberta == <<"t", "w", "i", "t", "t", "e", "r", "-", "r", "o", "b", "e", "r", "t", "a">>
LABEL_ == <<"L", "A", "B", "E", "L", "_">>
LABEL_0 == <<"L", "A", "B", "E", "L", "_", "0">>
ERROR == <<"E", "R", "R", "O", "R">>
NEGATIVE == <<"N", "E", "G", "A", "T", "I", "V", "E">>
POSITIVE == <<"P", "O", "S", "I", "T", "I", "V", "E">>
neg == <<"n", "e", "g">>
negative == <<"n", "e", "g", "a", "t", "i", "v", "e">>

\* a fetcher without the try/except
fetcher_propagates_uncaught(o) == o.kind = "raise"

\* every fetcher runs inside try/except Exception and returns [] from the
\* handler: no answer of a source makes a fetcher raise
fetcher_propagates(o) == FALSE

\* the article a fetcher makes of one item of a source's answer
article_of(source, a) ==
    [title |-> a.title, desc |-> a.description, date |-> a.date,
     url |-> a.link, source |-> source]

\* what a news fetcher returns for an answer: the articles of a good answer,
\* [] for an error answer and for a caught exception
fetched_articles(source, o) ==
    IF o.kind = "ok"
    THEN [i \in 1..Len(o.items) |-> article_of(source, o.items[i])]
    ELSE <<>>

\* f"{art.get('title', '')} {art.get('desc', '')}"
article_text(art) == FormatStr(art.title) \o <<" ">> \o FormatStr(art.desc)

\* the buckets with the boundary scores left to the milder bucket
categorize_severity_exclusive(score) ==
    IF score < -50 THEN "High"
    ELSE IF score < -20 THEN "Medium"
    ELSE IF score < 0 THEN "Low"
    ELSE "Not Negative"

\* v5: the bucket of a compound score, in hundredths
categorize_severity(score) ==
    IF score <= -50 THEN "High"
    ELSE IF score <= -20 THEN "Medium"
    ELSE IF score < 0 THEN "Low"
    ELSE "Not Negative"

\* app, v2, v2_1: label and score read inside try/except; any exception
\* gives the label "ERROR" and the score 0.0
read_answer(resp) ==
    IF resp.kind = "ok"
    THEN [label |-> IF Truthy(resp.label) THEN resp.label ELSE <<>>,
          score |-> resp.score]
    ELSE [label |-> ERROR, score |-> 0]

\* LABEL_0 taken as negative whatever the selected model
is_negative_any_model(mc, label) ==
    \/ str_contains(str_lower(label), neg)
    \/ str_upper(label) = LABEL_0

is_negative(mc, label) ==
    \/ str_contains(str_lower(label), neg)
    \/ str_contains(str_lower(label), negative)
    \/ /\ Truthy(mc)
       /\ str_contains(mc, twitter_roberta)
       /\ str_startswith(str_upper(label), LABEL_)
       /\ str_upper(label) = LABEL_0

\* the severity with the boundary confidences left to the milder bucket
severity_of_exclusive(score) ==
    IF score > 85 THEN "High" ELSE IF score > 60 THEN "Medium" ELSE "Low"

\* app, v2, v2_1: the severity of a confidence, in hundredths
severity_of(score) ==
    IF score >= 85 THEN "High" ELSE IF score >= 60 THEN "Medium" ELSE "Low"

\* v2_1: art.get('title','').strip() or art.get('desc','').strip()
headline_raises(art) ==
    \/ art.title = NoneValue
    \/ (str_strip(art.title) = <<>> /\ art.desc = NoneValue)

headline(art) ==
    IF str_strip(art.title) # <<>> THEN str_strip(art.title)
    ELSE str_strip(art.desc)

\* the result entry of a negative article
news_result(v, art, label, score, severity) ==
    IF v = "v5"
    THEN [title |-> art.title, source |-> art.source, date |-> art.date,
          url |-> art.url, score |-> score, severity |-> severity]
    ELSE [title |-> IF v = "v2_1" THEN headline(art) ELSE art.title,
          source |-> art.source, date |-> art.date, url |-> art.url,
          score |-> score, severity |-> severity, model_label |-> label]

NoEntry == [title |-> <<>>]

\* a filter that drops only the Low results
passes_filter_not_low(hs, severity) == hs => severity # "Low"

\* if high_severity and severity != "High": continue
passes_filter(hs, severity) == hs => severity = "High"

\* one turn of the loop over the articles, for the classifier's answer resp:
\* what is logged, whether an exception leaves search_all, and the entry
\* appended to the results, if any
classify(v, mc, hs, art, resp) ==
    LET text == article_text(art)
    IN  IF v = "v5"
        THEN IF resp.kind # "ok"
             THEN [answer |-> resp.kind, raised |-> "classifier",
                   keep |-> FALSE, entry |-> NoEntry]
             ELSE LET severity == categorize_severity(resp.score)
                  IN  [answer |-> "ok", raised |-> "",
                       keep |-> /\ severity # "Not Negative"
                                /\ passes_filter(hs, severity),
                       entry |-> news_result(v, art, <<>>, resp.score, severity)]
        ELSE IF IsBlank(text)
        THEN [answer |-> "skipped", raised |-> "",
              keep |-> FALSE, entry |-> NoEntry]
        ELSE LET res == read_answer(resp)
                 severity == severity_of(res.score)
                 kept == /\ is_negative(mc, res.label)
                         /\ passes_filter(hs, severity)
             IN  IF kept /\ v = "v2_1" /\ headline_raises(art)
                 THEN [answer |-> resp.kind, raised |-> "headline",
                       keep |-> FALSE, entry |-> NoEntry]
                 ELSE [answer |-> resp.kind, raised |-> "",
                       keep |-> kept,
                       entry |-> news_result(v, art, res.label, res.score, severity)]

\* list.sort raises TypeError when it compares None with a string or with
\* None.  A sort of two or more results by the date compares every date with
\* another one; Sanctions First compares the dates of two results of one
\* group, and only when the dates differ (equal tuples are not compared
\* element by element).  The sources are always strings.
sort_raises(opt, rs) ==
    LET n == Len(rs)
        group == [i \in 1..n |-> IF IsSanctionsResult(rs[i]) THEN 0 ELSE 1]
    IN  IF opt \in {"Newest First", "Oldest First"}
        THEN n >= 2 /\ \E i \in 1..n : rs[i].date = NoneValue
        ELSE IF opt = "Sanctions First"
        THEN \E i, j \in 1..n :
                /\ group[i] = group[j]
                /\ rs[i].date = NoneValue
                /\ rs[j].date # NoneValue
        ELSE FALSE

\* the sort with the groups of Sanctions First the wrong way round
sort_results_news_first(opt, rs) ==
    LET n == Len(rs)
        dates == StrRanks([i \in 1..n |-> rs[i].date])
        sources == StrRanks([i \in 1..n |-> str_lower(rs[i].source)])
        group == [i \in 1..n |-> IF IsSanctionsResult(rs[i]) THEN 1 ELSE 0]
    IN  IF opt = "Newest First" THEN StableSort(rs, dates, TRUE)
        ELSE IF opt = "Oldest First" THEN StableSort(rs, dates, FALSE)
        ELSE IF opt = "Source (A-Z)" THEN StableSort(rs, sources, FALSE)
        ELSE IF opt = "Sanctions First"
        THEN StableSort(rs, [i \in 1..n |-> group[i] * (n + 1) + dates[i]], FALSE)
        ELSE rs

\* the handler's sort of the results
sort_results(opt, rs) ==
    LET n == Len(rs)
        dates == StrRanks([i \in 1..n |-> rs[i].date])
        sources == StrRanks([i \in 1..n |-> str_lower(rs[i].source)])
        group == [i \in 1..n |-> IF IsSanctionsResult(rs[i]) THEN 0 ELSE 1]
    IN  IF opt = "Newest First" THEN StableSort(rs, dates, TRUE)
        ELSE IF opt = "Oldest First" THEN StableSort(rs, dates, FALSE)
        ELSE IF opt = "Source (A-Z)" THEN StableSort(rs, sources, FALSE)
        ELSE IF opt = "Sanctions First"
        THEN StableSort(rs, [i \in 1..n |-> group[i] * (n + 1) + dates[i]], FALSE)
        ELSE rs

sort_options(v) ==
    IF v = "v2_1"
    THEN {"Sanctions First", "Newest First", "Oldest First", "Source (A-Z)"}
    ELSE {"Newest First", "Oldest First", "Source (A-Z)"}

\* the order in which the handler writes the results: v2_1 writes the
\* sanctions matches first and the news below them, the others write the
\* sorted list as it is
displayed(v, rs) ==
    IF v = "v2_1"
    THEN SelectSeq(rs, IsSanctionsResult)
            \o SelectSeq(rs, LAMBDA r : ~IsSanctionsResult(r))
    ELSE rs


-----------------------------------------------------------------------------
\* One click on Search.  D holds the sets the widgets' values and the answers
\* of the news sources, the list sources and the classifier are drawn from.

\* no more than MaxArticles articles are fetched and no more than MaxNames
\* names are delivered by the list sources in one run
MaxArticles == 2
MaxNames == 2

Crash(cause) == pc' = "crashed" /\ raised' = cause

\* where the run goes once the articles are fetched (v2, v2_1: and the
\* matches are made): into the loop over the articles, if there are any
ToLoop(arts) == IF arts = <<>> THEN "render" ELSE "classify"

\* the Search button; v2_1's search_all returns [] at once for a blank name
Click(D) ==
    /\ pc = "idle"
    /\ \E v \in D.variants, nm \in D.names, hs \in D.flags, so \in D.sorts :
       \E mc \in (IF v = "v5" THEN {<<>>} ELSE D.models) :
        /\ so \in sort_options(v)
        /\ variant' = v /\ name' = nm /\ high_severity' = hs
        /\ model_choice' = mc /\ sort_option' = so
        /\ pc' = IF v = "v2_1" /\ (~Truthy(nm) \/ IsBlank(nm))
                 THEN "render" ELSE "newsdata"
    /\ UNCHANGED <<ran, raised, news_vars, list_vars, shown_vars, norm_vars, hl_vars, fz_vars, os_vars, cache_vars>>

fetch_news(outcomes, source, here, there) ==
    /\ pc = here
    /\ \E o \in outcomes :
        /\ Len(articles) + Len(o.items) <= MaxArticles
        /\ IF fetcher_propagates(o)
           THEN Crash("fetch") /\ UNCHANGED articles
           ELSE /\ articles' = articles \o fetched_articles(source, o)
                /\ pc' = IF there = "loop" THEN ToLoop(articles') ELSE there
                /\ UNCHANGED raised
        /\ news_status' = Append(news_status, o.kind)
    /\ ran' = ran \cup {"news"}
    /\ UNCHANGED <<widget_vars, art_idx, clf_log, results, returned, list_vars, shown_vars,
                   norm_vars, hl_vars, fz_vars, os_vars, cache_vars>>

fetch_from_newsdata(D) == fetch_news(D.news.newsdata, NewsData, "newsdata", "newsapi")

fetch_from_newsapi(D) == fetch_news(D.news.newsapi, NewsAPI, "newsapi", "gnews")

fetch_from_gnews(D) ==
    fetch_news(D.news.gnews, GNews, "gnews",
               IF variant \in NormVariants THEN "ofac" ELSE "loop")

\* the names a list fetcher returns for an answer: the non-empty names of a
\* good answer, [] after a caught exception
fetched_names(o) == IF o.kind = "ok" THEN SelectSeq(o.names, Truthy) ELSE <<>>

Delivered == Len(sanctioned) + Cardinality(sanctions_names) + Len(os_names)

\* a list fetcher of app and v5; ofac returns list(set(names)), the two
\* others return the names in the order of the answer
fetch_list(outcomes, here, there, as_set) ==
    /\ pc = here
    /\ variant \notin NormVariants
    /\ \E o \in outcomes :
        /\ Delivered + Len(o.names) <= MaxNames
        /\ \E order \in (IF as_set THEN Orderings(Range(fetched_names(o)))
                         ELSE {fetched_names(o)}) :
                sanctioned' = sanctioned \o order
        /\ list_status' = Append(list_status, o.kind)
    /\ pc' = there
    /\ UNCHANGED <<widget_vars, ran, raised, news_vars, sanctions_names, scanned,
                   matches, shown_vars, norm_vars, hl_vars, fz_vars, os_vars, cache_vars>>

\* @st.cache_data(ttl=24*3600), in hours
TTL == 24

\* a cache that keeps its entries for ever
is_cached_for_ever(v, f) == v = "v2_1" /\ cache[f].stored

\* v2_1: the decorated fetcher is not run when the value it returned less
\* than TTL ago is stored
is_cached(v, f) ==
    v = "v2_1" /\ cache[f].stored /\ now - cache[f].at < TTL

\* a cache that does not store an empty list
cache_after_skipping_empty(v, f, value) ==
    IF v = "v2_1" /\ value # {}
    THEN [cache EXCEPT ![f] = [stored |-> TRUE, at |-> now, value |-> value]]
    ELSE cache

\* v2_1: whatever the fetcher returns is stored, also the [] it returns
\* after an exception it caught
cache_after(v, f, value) ==
    IF v = "v2_1"
    THEN [cache EXCEPT ![f] = [stored |-> TRUE, at |-> now, value |-> value]]
    ELSE cache

\* the runs of the body of a decorated fetcher: when, and how it ended
fetch_log_after(v, f, outcome) ==
    IF v = "v2_1"
    THEN [fetch_log EXCEPT ![f] = Append(@, [at |-> now, outcome |-> outcome])]
    ELSE fetch_log

\* a list fetcher of v2 and v2_1: the set of the names, stripped where the
\* fetcher strips them
fetch_set(outcomes, here, there, stripped) ==
    /\ pc = here
    /\ variant \in NormVariants
    /\ IF is_cached(variant, here)
       THEN /\ sanctions_names' = sanctions_names \cup cache[here].value
            /\ list_status' = Append(list_status, "cached")
            /\ UNCHANGED <<cache, fetch_log>>
       ELSE \E o \in outcomes :
            /\ o.names = <<>> \/ Delivered + Len(o.names) <= MaxNames
            /\ LET value ==
                    {IF stripped /\ variant = "v2_1" THEN str_strip(n) ELSE n :
                        n \in {m \in Range(fetched_names(o)) :
                                ~(stripped /\ variant = "v2_1") \/ ~IsBlank(m)}}
               IN  /\ sanctions_names' = sanctions_names \cup value
                   /\ cache' = cache_after(variant, here, value)
                   /\ fetch_log' = fetch_log_after(variant, here, o.kind)
            /\ list_status' = Append(list_status, o.kind)
    /\ pc' = there
    /\ UNCHANGED <<widget_vars, ran, raised, news_vars, sanctioned, scanned,
                   matches, shown_vars, norm_vars, hl_vars, fz_vars, os_vars,
                   now, searches>>

fetch_ofac_list(D) ==
    \/ fetch_list(D.lists.ofac, "ofac", "opensanctions", TRUE)
    \/ fetch_set(D.lists.ofac, "ofac", "uk", TRUE)

fetch_uk_list(D) ==
    \/ fetch_list(D.lists.uk, "uk", "search_sanctions", FALSE)
    \/ fetch_set(D.lists.uk, "uk", "opensanctions", TRUE)

fetch_opensanctions(D) ==
    fetch_list(D.lists.opensanctions, "opensanctions", "uk", FALSE)

\* the arguments search_all passes to fetch_opensanctions_all
limit_of(v) == 1000
max_items_of(v) == IF v = "v2" THEN 4000 ELSE 3000

\* a page request as the log keeps it: its offset and how it was answered
request(offset, resp) ==
    [offset |-> offset,
     answer |-> IF resp.kind # "ok" THEN resp.kind
                ELSE IF resp.names = <<>> THEN "empty" ELSE "page"]

\* a loop that tests the offset before it adds the limit: one page too many
page_step_late_stop(limit, max_items, offset, names, resp) ==
    IF resp.kind = "raise"
    THEN [offset |-> offset, names |-> names, done |-> TRUE,
          outcome |-> "raise", result |-> <<>>]
    ELSE IF resp.kind = "status" \/ resp.names = <<>>
    THEN [offset |-> offset, names |-> names, done |-> TRUE,
          outcome |-> resp.kind, result |-> names]
    ELSE [offset |-> offset + limit,
          names |-> names \o fetched_names(resp),
          done |-> offset >= max_items,
          outcome |-> "ok",
          result |-> IF offset >= max_items
                     THEN names \o fetched_names(resp) ELSE <<>>]

\* one turn of the loop of fetch_opensanctions_all: the page at `offset` is
\* requested and answered by resp.  An exception ends the call with [], a
\* status other than 200 and an empty page break out of the loop with the
\* names read so far, a page of results adds its names and the limit to the
\* offset and leaves the loop once the offset has reached max_items.
page_step(limit, max_items, offset, names, resp) ==
    IF resp.kind = "raise"
    THEN [offset |-> offset, names |-> names, done |-> TRUE,
          outcome |-> "raise", result |-> <<>>]
    ELSE IF resp.kind = "status" \/ resp.names = <<>>
    THEN [offset |-> offset, names |-> names, done |-> TRUE,
          outcome |-> resp.kind, result |-> names]
    ELSE [offset |-> offset + limit,
          names |-> names \o fetched_names(resp),
          done |-> offset + limit >= max_items,
          outcome |-> "ok",
          result |-> IF offset + limit >= max_items
                     THEN names \o fetched_names(resp) ELSE <<>>]

\* v2, v2_1: fetch_opensanctions_all, one page a step; the call returns
\* list({n for n in names if n}) into search_all's candidates, and its
\* locals offset and names are gone when it has returned
fetch_opensanctions_all(D) ==
    /\ pc = "opensanctions"
    /\ variant \in NormVariants
    /\ IF os_requests = <<>> /\ is_cached(variant, "opensanctions")
       THEN /\ sanctions_names' =
                    sanctions_names \cup cache["opensanctions"].value
            /\ list_status' = Append(list_status, "cached")
            /\ pc' = "match"
            /\ UNCHANGED <<os_offset, os_names, os_requests, os_result,
                           cache, fetch_log>>
       ELSE \E resp \in D.lists.pages :
            /\ resp.names = <<>> \/ Delivered + Len(resp.names) <= MaxNames
            /\ LET step == page_step(limit_of(variant), max_items_of(variant),
                                     os_offset, os_names, resp)
               IN  /\ os_requests' = Append(os_requests, request(os_offset, resp))
                   /\ os_offset' = IF step.done THEN 0 ELSE step.offset
                   /\ os_names' = IF step.done THEN <<>> ELSE step.names
                   /\ os_result' = step.result
                   /\ IF step.done
                      THEN /\ sanctions_names' =
                                sanctions_names \cup Range(step.result)
                           /\ cache' = cache_after(variant, "opensanctions",
                                                   Range(step.result))
                           /\ fetch_log' =
                                fetch_log_after(variant, "opensanctions",
                                                step.outcome)
                           /\ list_status' = Append(list_status, step.outcome)
                           /\ pc' = "match"
                      ELSE UNCHANGED <<sanctions_names, list_status, pc,
                                       cache, fetch_log>>
    /\ UNCHANGED <<widget_vars, ran, raised, news_vars, sanctioned, scanned,
                   matches, shown_vars, norm_vars, hl_vars, fz_vars,
                   os_limit, os_max_items, os_pc, now, searches>>


\* v2, v2_1: search_all combines the lists with the fallback list, matches the
\* name against every candidate (v2: only `if name`) and puts the sorted
\* matches at the head of the results
match_sanctions ==
    /\ pc = "match"
    /\ LET combined == {n \in sanctions_names : Truthy(n)}
                        \cup {n \in Range(FALLBACK_SANCTIONS(variant)) : Truthy(n)}
           runs == variant = "v2_1" \/ Truthy(name)
           hits == IF runs THEN {s \in combined : is_match(variant, name, s)}
                   ELSE {}
       IN  /\ sanctions_names' = combined
           /\ \E order \in Orderings(hits) :
                scanned' = [i \in 1..Len(order) |->
                                match_record(variant, name, order[i])]
           /\ ran' = IF runs THEN ran \cup {"match"} ELSE ran
    /\ matches' = sorted_matches(scanned')
    /\ results' = [i \in 1..Len(matches') |-> sanctions_result(matches'[i])]
    /\ pc' = ToLoop(articles)
    /\ UNCHANGED <<widget_vars, raised, news_status, articles, art_idx, clf_log,
                   returned, list_status, sanctioned, shown_vars, norm_vars, hl_vars, fz_vars, os_vars, cache_vars>>

\* app, v5: search_sanctions, called by the handler `if name`, and the lines
\* the handler writes for its matches
search_sanctions ==
    /\ pc = "search_sanctions"
    /\ sanctioned' = SelectSeq(sanctioned, Truthy)
    /\ LET hits == SelectSeq(sanctioned', LAMBDA s : is_match(variant, name, s))
       IN  scanned' = [i \in 1..Len(hits) |-> match_record(variant, name, hits[i])]
    /\ matches' = sorted_matches(scanned')
    /\ shown_matches' = matches'
    /\ ran' = ran \cup {"match"}
    /\ pc' = "done"
    /\ UNCHANGED <<widget_vars, raised, news_vars, list_status, sanctions_names,
                   shown, export, norm_vars, hl_vars, fz_vars, os_vars, cache_vars>>

\* one turn of the loop over the articles
classify_article(D) ==
    /\ pc = "classify"
    /\ art_idx < Len(articles)
    /\ \E resp \in (IF variant = "v5" THEN D.lexicon ELSE D.classifier) :
        LET out == classify(variant, model_choice, high_severity,
                            articles[art_idx + 1], resp)
        IN  /\ clf_log' = Append(clf_log, [answer |-> out.answer, resp |-> resp])
            /\ results' = IF out.keep THEN Append(results, out.entry) ELSE results
            /\ raised' = out.raised
            /\ pc' = IF out.raised # "" THEN "crashed"
                     ELSE IF art_idx + 1 = Len(articles) THEN "render"
                     ELSE "classify"
    /\ art_idx' = art_idx + 1
    /\ ran' = ran \cup {"classify"}
    /\ UNCHANGED <<widget_vars, news_status, articles, returned, list_vars, shown_vars,
                   norm_vars, hl_vars, fz_vars, os_vars, cache_vars>>

\* the columns of the DataFrame the handler builds for the download
export_columns(v) ==
    IF v \in {"app", "v2"}
    THEN <<"Title", "Source", "Date", "Severity", "Sentiment Score",
           "Model Label", "URL">>
    ELSE <<"Title", "Source", "Date", "Severity", "Sentiment Score", "URL">>

export_row(v, r) ==
    IF v \in {"app", "v2"}
    THEN <<r.title, r.source, r.date, r.severity, r.score, r.model_label, r.url>>
    ELSE <<r.title, r.source, r.date, r.severity, r.score, r.url>>

\* the download: a row for every result in app, v5 and v2 `if results`, a
\* row for every news result in v2_1, and there only when there is one
export_of(v, rs) ==
    LET rows == IF v = "v2_1"
                THEN SelectSeq(rs, LAMBDA r : ~IsSanctionsResult(r))
                ELSE rs
    IN  IF rows = <<>> THEN NoExport
        ELSE [columns |-> export_columns(v),
              rows |-> [i \in 1..Len(rows) |-> export_row(v, rows[i])]]

\* the handler sorts the results and writes them; app and v5 go on to the
\* sanctions search `if name`
render_results ==
    /\ pc = "render"
    /\ returned' = results
    /\ IF sort_raises(sort_option, results)
       THEN /\ Crash("sort")
            /\ UNCHANGED <<results, shown, export>>
       ELSE /\ results' = sort_results(sort_option, results)
            /\ shown' = displayed(variant, results')
            /\ export' = export_of(variant, results')
            /\ pc' = IF variant \notin NormVariants /\ Truthy(name)
                     THEN "ofac" ELSE "done"
            /\ UNCHANGED raised
    /\ UNCHANGED <<widget_vars, ran, news_status, articles, art_idx,
                   clf_log, list_vars, shown_matches, norm_vars, hl_vars, fz_vars, os_vars, cache_vars>>

InitRun == IdleNorm /\ IdleHl /\ IdleFz /\ IdleOs /\ IdleCache /\ IdleRun

\* the names of the matches the run reports: v2 and v2_1 show them as result
\* entries titled "Sanctions match: <name>", app and v5 as lines of their own
ReportedMatches ==
    IF variant \in NormVariants
    THEN LET shown_m == SelectSeq(shown, IsSanctionsResult)
         IN  [i \in 1..Len(shown_m) |->
                SubSeq(shown_m[i].title, Len(sanctions_title) + 1,
                       Len(shown_m[i].title))]
    ELSE [i \in 1..Len(shown_matches) |-> shown_matches[i].sanctioned_name]

\* the news entries the run shows
ShownNews == SelectSeq(shown, LAMBDA r : ~IsSanctionsResult(r))


-----------------------------------------------------------------------------
\* Runs over failing news sources and a failing classifier.

VTB_Bank == <<"V", "T", "B", " ", "B", "a", "n", "k">>
LLC == <<"L", "L", "C">>

fraud_item ==
    [title |-> <<"F", "r", "a", "u", "d">>, description |-> <<>>,
     date |-> <<"2", "0", "2", "4", "-", "0", "5", "-", "0", "1">>,
     link |-> <<"u", "1">>]
probe_item ==
    [title |-> <<>>, description |-> <<"P", "r", "o", "b", "e">>,
     date |-> <<"2", "0", "2", "3", "-", "1", "1", "-", "3", "0">>,
     link |-> <<"u", "2">>]
ItemPool == {fraud_item, probe_item}

\* the answers of a news source: the request raises, the answer is an error
\* answer, or the answer holds up to MaxArticles different items
NewsAnswers ==
    {[kind |-> "raise", items |-> <<>>], [kind |-> "error", items |-> <<>>]}
    \cup {[kind |-> "ok", items |-> is] :
            is \in UNION {{f \in [1..n -> ItemPool] :
                            \A i, j \in 1..n : i # j => f[i] # f[j]} :
                          n \in 1..MaxArticles}}

\* the answers of the transformer classifier and of the lexicon scorer: the
\* call raises, the answer cannot be read, or a label with a confidence
\* (a compound score), in hundredths
ClassifierAnswers ==
    {[kind |-> "raise", label |-> <<>>, score |-> 0],
     [kind |-> "malformed", label |-> <<>>, score |-> 0],
     [kind |-> "ok", label |-> NEGATIVE, score |-> 90],
     [kind |-> "ok", label |-> POSITIVE, score |-> 90]}
LexiconAnswers ==
    {[kind |-> "raise", score |-> 0],
     [kind |-> "malformed", score |-> 0],
     [kind |-> "ok", score |-> -60],
     [kind |-> "ok", score |-> 30]}

ListFails == [kind |-> "raise", names |-> <<>>]

NewsDomain ==
    [variants |-> Variants,
     names |-> {<<>>, <<" ">>, VTB_Bank},
     flags |-> BOOLEAN,
     sorts |-> {"Newest First"},
     models |-> {twitter_roberta_latest},
     news |-> [newsdata |-> NewsAnswers, newsapi |-> NewsAnswers,
               gnews |-> NewsAnswers],
     classifier |-> ClassifierAnswers,
     lexicon |-> LexiconAnswers,
     lists |-> [ofac |-> {ListFails},
                opensanctions |-> {ListFails},
                uk |-> {[kind |-> "ok", names |-> <<VTB_Bank>>]},
                pages |-> {ListFails}]]

Next ==
    \/ Click(NewsDomain)
    \/ fetch_from_newsdata(NewsDomain)
    \/ fetch_from_newsapi(NewsDomain)
    \/ fetch_from_gnews(NewsDomain)
    \/ fetch_ofac_list(NewsDomain)
    \/ fetch_uk_list(NewsDomain)
    \/ fetch_opensanctions(NewsDomain)
    \/ fetch_opensanctions_all(NewsDomain)
    \/ match_sanctions
    \/ search_sanctions
    \/ classify_article(NewsDomain)
    \/ render_results

Spec == InitRun /\ [][Next]_vars

\* article i of the batch has an entry in the results
InResults(i) ==
    \E k \in 1..Len(results) :
        /\ ~IsSanctionsResult(results[k])
        /\ results[k].source = articles[i].source
        /\ results[k].url = articles[i].url

ClassifierFailed(i) == clf_log[i].answer \in {"raise", "malformed"}

\* the classifier found article i negative, and severe enough for the filter
FoundNegative(i) ==
    /\ clf_log[i].answer = "ok"
    /\ classify(variant, model_choice, high_severity, articles[i],
                clf_log[i].resp).keep

LoopDone == pc \in {"render", "ofac", "opensanctions", "uk", "search_sanctions", "done"}

\* C1: when the classifier fails on an article (it raises, or its answer
\* cannot be read), search_all is not aborted, the article is left out of the
\* results, and once the loop is over every article of the batch has been
\* classified and every one found negative is in the results.
C1_ClassifierFailureSkipsOneArticle ==
    \A i \in 1..Len(clf_log) :
        ClassifierFailed(i) =>
            /\ raised = "" /\ pc # "crashed"
            /\ ~InResults(i)
            /\ LoopDone =>
                /\ Len(clf_log) = Len(articles)
                /\ \A j \in 1..Len(articles) : FoundNegative(j) => InResults(j)

BlankName == ~Truthy(name) \/ IsBlank(name)

AllSourcesFailed ==
    /\ Len(news_status) = 3
    /\ \A i \in 1..3 : news_status[i] \in {"raise", "error"}

\* C2: when all three news sources fail, nothing is raised; at the end of
\* the run no news entry is shown, and for a non-blank name the matching has
\* run and every match it made is reported, in the order of the matches.
C2_AllSourcesFailStillMatches ==
    AllSourcesFailed =>
        /\ raised = "" /\ pc # "crashed"
        /\ articles = <<>>
        /\ pc = "done" =>
            /\ ShownNews = <<>>
            /\ ~BlankName =>
                /\ "match" \in ran
                /\ ReportedMatches =
                    [i \in 1..Len(matches) |-> matches[i].sanctioned_name]

C2_Witness ==
    /\ pc = "done" /\ AllSourcesFailed /\ ~BlankName
    /\ "raise" \in Range(news_status)
    /\ matches # <<>>
    /\ Len(ReportedMatches) = Len(matches)

\* C10: a run for an empty or whitespace-only name skips the sanctions
\* matching and reports no match, while the news are fetched, every article
\* is classified and the negative ones are shown.
C10_BlankNameSkipsMatching ==
    (pc = "done" /\ BlankName) =>
        /\ "match" \notin ran
        /\ matches = <<>> /\ ReportedMatches = <<>>
        /\ "news" \in ran
        /\ Len(clf_log) = Len(articles)
        /\ \A j \in 1..Len(articles) : FoundNegative(j) => InResults(j)


-----------------------------------------------------------------------------
\* Runs over the answers of the sanctions-list sources.

vtb_bank == <<"v", "t", "b", " ", "b", "a", "n", "k">>
VTB_Ba == <<"V", "T", "B", " ", "B", "a">>
Ltd == <<"L", "t", "d">>
NamePool == {VTB_Bank, vtb_bank, VTB_Ba, LLC}

\* the answers of a list source: the request raises, or the answer holds up
\* to MaxNames names, possibly the same name more than once
ListAnswers ==
    {ListFails}
    \cup {[kind |-> "ok", names |-> ns] :
            ns \in UNION {[1..n -> NamePool] : n \in 0..MaxNames}}

MatchDomain ==
    [variants |-> Variants,
     names |-> {VTB_Bank, Ltd, <<" ">>},
     flags |-> {FALSE},
     sorts |-> {"Newest First", "Sanctions First"},
     models |-> {finbert},
     news |-> [newsdata |-> {[kind |-> "error", items |-> <<>>],
                             [kind |-> "ok", items |-> <<fraud_item>>]},
               newsapi |-> {[kind |-> "error", items |-> <<>>]},
               gnews |-> {[kind |-> "raise", items |-> <<>>]}],
     classifier |-> {[kind |-> "ok", label |-> NEGATIVE, score |-> 90]},
     lexicon |-> {[kind |-> "ok", score |-> -60]},
     lists |-> [ofac |-> ListAnswers, opensanctions |-> ListAnswers,
                uk |-> ListAnswers,
                pages |-> {ListFails, [kind |-> "ok", names |-> <<>>]}]]

NextMatch ==
    \/ Click(MatchDomain)
    \/ fetch_from_newsdata(MatchDomain)
    \/ fetch_from_newsapi(MatchDomain)
    \/ fetch_from_gnews(MatchDomain)
    \/ fetch_ofac_list(MatchDomain)
    \/ fetch_uk_list(MatchDomain)
    \/ fetch_opensanctions(MatchDomain)
    \/ fetch_opensanctions_all(MatchDomain)
    \/ match_sanctions
    \/ search_sanctions
    \/ classify_article(MatchDomain)
    \/ render_results

SpecMatch == InitRun /\ [][NextMatch]_vars

\* C3: in v2 and v2_1 no match is made for a candidate whose normalized form
\* is empty, whatever the query name.
C3_NoMatchForEmptyNormalForm ==
    variant \in NormVariants =>
        \A i \in 1..Len(matches) :
            normalize_name(variant, matches[i].sanctioned_name) # <<>>

WithSimilarity(ms, sim) == SelectSeq(ms, LAMBDA m : m.similarity = sim)

\* C8: the matches are in descending order of similarity, and the matches of
\* one similarity are in the order in which their candidates were scanned.
C8_MatchesDescendingAndStable ==
    "match" \in ran =>
        /\ Len(matches) = Len(scanned)
        /\ \A i, j \in 1..Len(matches) :
            i < j => matches[i].similarity >= matches[j].similarity
        /\ \A k \in 1..Len(scanned) :
            WithSimilarity(matches, scanned[k].similarity)
                = WithSimilarity(scanned, scanned[k].similarity)

C8_Witness ==
    /\ "match" \in ran
    /\ \E i, j \in 1..Len(scanned) :
        /\ i < j
        /\ scanned[i].similarity < scanned[j].similarity
    /\ \E i, j \in 1..Len(matches) :
        /\ i < j
        /\ matches[i].similarity = matches[j].similarity
        /\ matches[i].sanctioned_name # matches[j].sanctioned_name

\* C9: the matches never hold the same sanctioned name twice.
C9_NoNameMatchedTwice ==
    \A i, j \in 1..Len(matches) :
        i # j => matches[i].sanctioned_name # matches[j].sanctioned_name


-----------------------------------------------------------------------------
\* Runs over the answers of the classifier: every label and every score that
\* lies on or next to a boundary of the severity buckets.

negative_label == <<"n", "e", "g", "a", "t", "i", "v", "e">>
neutral_label == <<"n", "e", "u", "t", "r", "a", "l">>
label_0_lower == <<"l", "a", "b", "e", "l", "_", "0">>
LABEL_1 == <<"L", "A", "B", "E", "L", "_", "1">>

Labels == {NEGATIVE, negative_label, neutral_label, POSITIVE, LABEL_0,
           label_0_lower, LABEL_1}
Confidences == {59, 60, 84, 85}
Compounds == {-100, -55, -51, -50, -49, -21, -20, -19, -1, 0, 1, 100}

ClfDomain ==
    [variants |-> Variants,
     names |-> {VTB_Bank},
     flags |-> BOOLEAN,
     sorts |-> {"Newest First"},
     models |-> {finbert, twitter_roberta_latest},
     news |-> [newsdata |-> {[kind |-> "ok", items |-> <<fraud_item>>]},
               newsapi |-> {[kind |-> "error", items |-> <<>>],
                            [kind |-> "ok", items |-> <<probe_item>>]},
               gnews |-> {[kind |-> "error", items |-> <<>>]}],
     classifier |-> {[kind |-> "ok", label |-> l, score |-> c] :
                        l \in Labels, c \in Confidences},
     lexicon |-> {[kind |-> "ok", score |-> c] : c \in Compounds},
     lists |-> [ofac |-> {ListFails}, opensanctions |-> {ListFails},
                uk |-> {ListFails}, pages |-> {ListFails}]]

NextClf ==
    \/ Click(ClfDomain)
    \/ fetch_from_newsdata(ClfDomain)
    \/ fetch_from_newsapi(ClfDomain)
    \/ fetch_from_gnews(ClfDomain)
    \/ fetch_ofac_list(ClfDomain)
    \/ fetch_uk_list(ClfDomain)
    \/ fetch_opensanctions(ClfDomain)
    \/ fetch_opensanctions_all(ClfDomain)
    \/ match_sanctions
    \/ search_sanctions
    \/ classify_article(ClfDomain)
    \/ render_results

SpecClf == InitRun /\ [][NextClf]_vars

\* article i of the batch has an entry of the severity sev in the results
IncludedAs(i, sev) ==
    \E k \in 1..Len(results) :
        /\ ~IsSanctionsResult(results[k])
        /\ results[k].source = articles[i].source
        /\ results[k].url = articles[i].url
        /\ results[k].severity = sev

\* the score the classifier gave article i
ScoreOf(i) == clf_log[i].resp.score

\* C11, as claimed: in v5 an article with a compound score <= -0.5 is in the
\* results with severity High, one with -0.5 < score <= -0.2 with Medium, one
\* with -0.2 < score < 0 with Low, and one with score >= 0 is not in the
\* results.
C11_BucketsDecideInclusion ==
    (variant = "v5" /\ LoopDone) =>
        \A i \in 1..Len(articles) :
            /\ ScoreOf(i) <= -50 => IncludedAs(i, "High")
            /\ (-50 < ScoreOf(i) /\ ScoreOf(i) <= -20) => IncludedAs(i, "Medium")
            /\ (-20 < ScoreOf(i) /\ ScoreOf(i) < 0) => IncludedAs(i, "Low")
            /\ ScoreOf(i) >= 0 => ~InResults(i)

\* C11, amended: the same buckets; a Medium or Low article is in the results
\* when the high-severity flag is off and left out when it is on.
C11_BucketsDecideInclusionUnlessFiltered ==
    (variant = "v5" /\ LoopDone) =>
        \A i \in 1..Len(articles) :
            /\ ScoreOf(i) <= -50 => IncludedAs(i, "High")
            /\ (-50 < ScoreOf(i) /\ ScoreOf(i) <= -20) =>
                IF high_severity THEN ~InResults(i) ELSE IncludedAs(i, "Medium")
            /\ (-20 < ScoreOf(i) /\ ScoreOf(i) < 0) =>
                IF high_severity THEN ~InResults(i) ELSE IncludedAs(i, "Low")
            /\ ScoreOf(i) >= 0 => ~InResults(i)

C11_Witness ==
    /\ variant = "v5" /\ pc = "done" /\ ~high_severity
    /\ Len(articles) = 2
    /\ ScoreOf(1) = -50 /\ IncludedAs(1, "High")
    /\ ScoreOf(2) = -20 /\ IncludedAs(2, "Medium")


\* the loop over the articles is over
AllClassified == LoopDone /\ Len(clf_log) = Len(articles)

\* the label the classifier gave article i
LabelOf(i) == clf_log[i].resp.label

\* C12: in the transformer variants, with the high-severity flag off, an
\* article with non-blank text is in the results exactly when its label
\* contains "neg" in any letter case, or the selected model is the
\* twitter-roberta classifier and the label is LABEL_0 in any letter case.
C12_NegativeLabelDecidesInclusion ==
    (variant \in {"app", "v2", "v2_1"} /\ ~high_severity /\ AllClassified) =>
        \A i \in 1..Len(articles) :
            ~IsBlank(article_text(articles[i])) =>
                (InResults(i) <=>
                    \/ str_contains(str_lower(LabelOf(i)), <<"n", "e", "g">>)
                    \/ /\ model_choice = twitter_roberta_latest
                       /\ str_upper(LabelOf(i)) = <<"L", "A", "B", "E", "L", "_", "0">>)

C12_Witness ==
    /\ variant = "app" /\ ~high_severity /\ pc = "done"
    /\ model_choice = finbert
    /\ Len(articles) = 2
    /\ LabelOf(1) = label_0_lower /\ ~InResults(1)
    /\ LabelOf(2) = negative_label /\ InResults(2)


\* C13: in the three transformer variants an article found negative has the
\* severity its confidence decides: High from 0.85, Medium from 0.6 up to
\* 0.85, Low below 0.6.
C13_ConfidenceDecidesSeverity ==
    (variant \in {"app", "v2", "v2_1"} /\ AllClassified) =>
        \A i \in 1..Len(articles) :
            InResults(i) =>
                /\ ScoreOf(i) >= 85 => IncludedAs(i, "High")
                /\ (60 <= ScoreOf(i) /\ ScoreOf(i) < 85) => IncludedAs(i, "Medium")
                /\ ScoreOf(i) < 60 => IncludedAs(i, "Low")
                /\ \A k \in 1..Len(results) :
                    (/\ results[k].source = articles[i].source
                     /\ results[k].url = articles[i].url)
                        => results[k].score = ScoreOf(i)

C13_Witness ==
    /\ variant = "v2" /\ pc = "done" /\ Len(articles) = 2
    /\ ScoreOf(1) = 85 /\ IncludedAs(1, "High")
    /\ ScoreOf(2) = 84 /\ IncludedAs(2, "Medium")
    /\ LabelOf(1) # LabelOf(2)


\* article i would be returned with severity High by a run with the
\* high-severity flag off
ReturnedHighWhenOff(i) ==
    LET off == classify(variant, model_choice, FALSE, articles[i], clf_log[i].resp)
    IN  off.raised = "" /\ off.keep /\ off.entry.severity = "High"

\* C14: with the high-severity flag on every result has severity High, and
\* every article a run with the flag off returns with severity High is in
\* the results.
C14_HighSeverityOnly ==
    high_severity =>
        /\ \A k \in 1..Len(results) : results[k].severity = "High"
        /\ AllClassified =>
            \A i \in 1..Len(articles) : ReturnedHighWhenOff(i) => IncludedAs(i, "High")

C14_Witness ==
    /\ high_severity /\ pc = "done" /\ Len(articles) = 2
    /\ ReturnedHighWhenOff(1) /\ IncludedAs(1, "High")
    /\ classify(variant, model_choice, FALSE, articles[2], clf_log[2].resp).keep
    /\ ~InResults(2)


-----------------------------------------------------------------------------
\* The candidates of a search: the lists deliver names that are equal to the
\* query name after normalization, names at the threshold and names far
\* from it.

Acme_Ltd == <<"A", "c", "m", "e", " ", "L", "t", "d">>
ACME_LTD == <<"A", "C", "M", "E", " ", "L", "T", "D">>
Beta_Corp == <<"B", "e", "t", "a", " ", "C", "o", "r", "p">>
VTB_Bank_Ltd == <<"V", "T", "B", " ", "B", "a", "n", "k", " ", "L", "t", "d">>
VTB_Bulgaria == <<"V", "T", "B", " ", "B", "u", "l", "g", "a", "r", "i", "a">>
CandidatePool == {ACME_LTD, Beta_Corp, VTB_Bank_Ltd, VTB_Bulgaria}

CandidateAnswers ==
    {ListFails}
    \cup {[kind |-> "ok", names |-> ns] :
            ns \in UNION {[1..n -> CandidatePool] : n \in 0..MaxNames}}

CandidateDomain ==
    [variants |-> Variants,
     names |-> {VTB_Bank, Acme_Ltd},
     flags |-> {FALSE},
     sorts |-> {"Newest First"},
     models |-> {finbert},
     news |-> [newsdata |-> {[kind |-> "error", items |-> <<>>],
                             [kind |-> "ok", items |-> <<fraud_item>>]},
               newsapi |-> {[kind |-> "error", items |-> <<>>]},
               gnews |-> {[kind |-> "raise", items |-> <<>>]}],
     classifier |-> {[kind |-> "ok", label |-> NEGATIVE, score |-> 90]},
     lexicon |-> {[kind |-> "ok", score |-> -60]},
     lists |-> [ofac |-> CandidateAnswers, opensanctions |-> CandidateAnswers,
                uk |-> {ListFails},
                pages |-> {ListFails, [kind |-> "ok", names |-> <<>>]}]]

NextCandidates ==
    \/ Click(CandidateDomain)
    \/ fetch_from_newsdata(CandidateDomain)
    \/ fetch_from_newsapi(CandidateDomain)
    \/ fetch_from_gnews(CandidateDomain)
    \/ fetch_ofac_list(CandidateDomain)
    \/ fetch_uk_list(CandidateDomain)
    \/ fetch_opensanctions(CandidateDomain)
    \/ fetch_opensanctions_all(CandidateDomain)
    \/ match_sanctions
    \/ search_sanctions
    \/ classify_article(CandidateDomain)
    \/ render_results

SpecCandidates == InitRun /\ [][NextCandidates]_vars

\* the candidates the matching went over
Candidates ==
    IF variant \in NormVariants THEN sanctions_names ELSE Range(sanctioned)

MatchedNames == {matches[i].sanctioned_name : i \in 1..Len(matches)}

\* the thresholds a search could be run at, in hundredths
Thresholds == {0, 50, 59, 60, 61, 79, 80, 81, 100}

\* the thresholds at which candidate s matches
MatchingThresholds(s) ==
    LET sim == similarity(variant, name, s)
    IN  {t \in Thresholds : AtLeast(sim, t)}

\* the candidates that match when the threshold is t hundredths
MatchedAt(t) == {s \in Candidates : t \in MatchingThresholds(s)}

\* C15: a candidate matched at a threshold is matched at every lower one, so
\* the candidates matched at a higher threshold are among those matched at a
\* lower one; the matches of a search are the candidates whose unrounded
\* similarity is at least the threshold of the variant, 0.6 in v2 and v2_1
\* and 0.8 in app and v5.
C15_HigherThresholdMatchesFewer ==
    "match" \in ran =>
        \A s \in Candidates :
            LET sim == similarity(variant, name, s)
                at == {t \in Thresholds : AtLeast(sim, t)}
            IN  /\ \A t1, t2 \in Thresholds : t1 < t2 /\ t2 \in at => t1 \in at
                /\ s \in MatchedNames <=>
                    IF variant \in NormVariants
                    THEN 100 * sim.num >= 60 * sim.den
                    ELSE 100 * sim.num >= 80 * sim.den

C15_Witness ==
    /\ "match" \in ran
    /\ name = VTB_Bank
    /\ \E s \in MatchedNames :
        MatchingThresholds(s) = {t \in Thresholds : t <= threshold(variant)}
    /\ \E s \in Candidates : s \notin MatchedNames
    /\ MatchedAt(80) # MatchedAt(60)


\* the names the list sources delivered, without the built-in fallback names
SourceCandidates == sanctions_names \ Range(FALLBACK_SANCTIONS(variant))

AcmeScenario ==
    /\ "match" \in ran
    /\ variant \in NormVariants
    /\ name = Acme_Ltd
    /\ SourceCandidates = {ACME_LTD, Beta_Corp}

\* C16: in v2 and v2_1 (threshold 0.6), the query name "Acme Ltd" against
\* the source candidates "ACME LTD" and "Beta Corp" gives exactly one match,
\* of the name "ACME LTD" with the similarity 1.0.
C16_AcmeMatchesOnce ==
    AcmeScenario =>
        matches = <<[sanctioned_name |-> ACME_LTD, similarity |-> 100]>>

C16_Witness ==
    /\ AcmeScenario
    /\ pc = "done"
    /\ Len(matches) = 1
    /\ IsSanctionsResult(results[1])


-----------------------------------------------------------------------------
\* fuzzy_match on its own: every pair of strings of up to MaxFuzzyLen
\* characters over a two-letter alphabet.

MaxFuzzyLen == 3

FuzzyInputs == UNION {[1..n -> {"a", "b"}] : n \in 0..MaxFuzzyLen}

InitFuzzy ==
    /\ f_a \in FuzzyInputs
    /\ f_b \in FuzzyInputs
    /\ f_score = [num |-> 0, den |-> 1]
    /\ f_pc = "start"
    /\ IdleNorm /\ IdleHl /\ IdleOs /\ IdleCache /\ IdleRun

FuzzyMatch ==
    /\ f_pc = "start"
    /\ f_score' = fuzzy_match(f_a, f_b)
    /\ f_pc' = "done"
    /\ UNCHANGED <<f_a, f_b, norm_vars, hl_vars, os_vars, cache_vars, run_vars>>

NextFuzzy == FuzzyMatch

SpecFuzzy == InitFuzzy /\ [][NextFuzzy]_vars

\* C17: fuzzy_match(a, a) is 1.0 for every string a, the empty string
\* included, and fuzzy_match(a, b) is between 0 and 1 for every a and b.
C17_FuzzyMatchReflexiveAndBounded ==
    f_pc = "done" =>
        /\ f_score.den > 0
        /\ 0 <= f_score.num
        /\ f_score.num <= f_score.den
        /\ f_a = f_b => f_score.num = f_score.den

C17_Witness ==
    /\ f_pc = "done"
    /\ f_a = <<>>
    /\ f_b = <<>>
    /\ f_score.num = f_score.den


-----------------------------------------------------------------------------
\* The sort of the results: every sort option, articles of equal and of
\* different dates from the three sources, and in v2 and v2_1 the sanctions
\* matches among the results.

bribe_item ==
    [title |-> <<"B", "r", "i", "b", "e">>, description |-> <<>>,
     date |-> <<"2", "0", "2", "4", "-", "0", "5", "-", "0", "1">>,
     link |-> <<"u", "3">>]
\* a date that is not zero-padded: as a string it is greater than the dates
\* of the same year with a two-digit month, as a date it is not
raid_item ==
    [title |-> <<"R", "a", "i", "d">>, description |-> <<>>,
     date |-> <<"2", "0", "2", "3", "-", "9", "-", "3", "0">>,
     link |-> <<"u", "4">>]
SortItemPool == {fraud_item, probe_item, bribe_item, raid_item}

SortNewsAnswers ==
    {[kind |-> "error", items |-> <<>>]}
    \cup {[kind |-> "ok", items |-> is] :
            is \in UNION {{f \in [1..n -> SortItemPool] :
                            \A i, j \in 1..n : i # j => f[i] # f[j]} :
                          n \in 1..MaxArticles}}

SortDomain ==
    [variants |-> Variants,
     names |-> {VTB_Bank},
     flags |-> {FALSE},
     sorts |-> {"Newest First", "Oldest First", "Source (A-Z)", "Sanctions First"},
     models |-> {finbert},
     news |-> [newsdata |-> SortNewsAnswers,
               newsapi |-> {[kind |-> "error", items |-> <<>>],
                            [kind |-> "ok", items |-> <<fraud_item>>],
                            [kind |-> "ok", items |-> <<raid_item>>]},
               gnews |-> {[kind |-> "error", items |-> <<>>],
                          [kind |-> "ok", items |-> <<probe_item>>]}],
     classifier |-> {[kind |-> "ok", label |-> NEGATIVE, score |-> 90]},
     lexicon |-> {[kind |-> "ok", score |-> -60]},
     lists |-> [ofac |-> {ListFails, [kind |-> "ok", names |-> <<VTB_Bank_Ltd>>]},
                opensanctions |-> {ListFails},
                uk |-> {ListFails}, pages |-> {ListFails}]]

NextSort ==
    \/ Click(SortDomain)
    \/ fetch_from_newsdata(SortDomain)
    \/ fetch_from_newsapi(SortDomain)
    \/ fetch_from_gnews(SortDomain)
    \/ fetch_ofac_list(SortDomain)
    \/ fetch_uk_list(SortDomain)
    \/ fetch_opensanctions(SortDomain)
    \/ fetch_opensanctions_all(SortDomain)
    \/ match_sanctions
    \/ search_sanctions
    \/ classify_article(SortDomain)
    \/ render_results

SpecSort == InitRun /\ [][NextSort]_vars

\* the handler has sorted what search_all returned
Sorted ==
    \/ pc = "done" /\ raised = ""
    \/ /\ variant \notin NormVariants
       /\ pc \in {"ofac", "opensanctions", "uk", "search_sanctions"}

\* the key the selected option sorts a result by
SortKey(r) ==
    IF sort_option = "Sanctions First"
    THEN <<IF IsSanctionsResult(r) THEN 0 ELSE 1, r.date>>
    ELSE IF sort_option = "Source (A-Z)" THEN <<str_lower(r.source)>>
    ELSE <<r.date>>

WithKey(rs, k) == SelectSeq(rs, LAMBDA r : SortKey(r) = k)

\* C18: under every sort option the results of one sort key are after the
\* sort in the order they had before it.
C18_SortIsStable ==
    Sorted =>
        \A i \in 1..Len(returned) :
            WithKey(results, SortKey(returned[i]))
                = WithKey(returned, SortKey(returned[i]))

C18_Witness ==
    /\ Sorted
    /\ sort_option = "Newest First"
    /\ results # returned
    /\ \E i, j \in 1..Len(returned) :
        /\ i < j
        /\ SortKey(returned[i]) = SortKey(returned[j])
        /\ returned[i] # returned[j]


\* the number of times r is in rs
Count(rs, r) == Cardinality({i \in 1..Len(rs) : rs[i] = r})

\* C19: the sorted results hold what the unsorted results held; Newest
\* First leaves no result before one of a greater date string, Oldest First
\* none before one of a smaller date string, and Source (A-Z) none before one
\* of a smaller lower-cased source name.
C19_SortedByTheSelectedKey ==
    Sorted =>
        /\ Len(results) = Len(returned)
        /\ \A r \in Range(returned) \cup Range(results) :
            Count(results, r) = Count(returned, r)
        /\ \A i \in 1..(Len(results) - 1) :
            /\ sort_option = "Newest First" =>
                ~StrLess(results[i].date, results[i + 1].date)
            /\ sort_option = "Oldest First" =>
                ~StrLess(results[i + 1].date, results[i].date)
            /\ sort_option = "Source (A-Z)" =>
                ~StrLess(str_lower(results[i + 1].source),
                         str_lower(results[i].source))

C19_Witness ==
    /\ Sorted
    /\ sort_option = "Oldest First"
    /\ variant = "app"
    /\ Len(results) = 2
    /\ results[1].date = probe_item.date
    /\ results[2].date = raid_item.date
    /\ results # returned

\* C20: under Sanctions First every sanctions match is before every news
\* result, and the sanctions matches are in descending order of similarity.
C20_SanctionsFirst ==
    Sorted /\ sort_option = "Sanctions First" =>
        \A i, j \in 1..Len(results) :
            /\ IsSanctionsResult(results[i]) /\ ~IsSanctionsResult(results[j])
                => i < j
            /\ i < j /\ IsSanctionsResult(results[i]) /\ IsSanctionsResult(results[j])
                => results[i].score >= results[j].score

C20_Witness ==
    /\ Sorted
    /\ sort_option = "Sanctions First"
    /\ \E i, j, k \in 1..Len(results) :
        /\ i < j /\ j < k
        /\ IsSanctionsResult(results[i]) /\ IsSanctionsResult(results[j])
        /\ results[i].score > results[j].score
        /\ ~IsSanctionsResult(results[k])


-----------------------------------------------------------------------------
\* Articles with null fields: the sources answer with items whose title,
\* description or date is null, which the adapters pass on as None.

null_title_item ==
    [title |-> NoneValue, description |-> <<"P", "r", "o", "b", "e">>,
     date |-> <<"2", "0", "2", "3", "-", "1", "1", "-", "3", "0">>,
     link |-> <<"u", "5">>]
null_date_item ==
    [title |-> <<"B", "r", "i", "b", "e">>, description |-> NoneValue,
     date |-> NoneValue,
     link |-> <<"u", "6">>]
NullItemPool == {fraud_item, null_title_item, null_date_item}

NullNewsAnswers ==
    {[kind |-> "error", items |-> <<>>]}
    \cup {[kind |-> "ok", items |-> is] :
            is \in UNION {{f \in [1..n -> NullItemPool] :
                            \A i, j \in 1..n : i # j => f[i] # f[j]} :
                          n \in 1..MaxArticles}}

NullDomain ==
    [variants |-> Variants,
     names |-> {VTB_Bank},
     flags |-> {FALSE},
     sorts |-> {"Newest First", "Oldest First", "Source (A-Z)", "Sanctions First"},
     models |-> {finbert},
     news |-> [newsdata |-> NullNewsAnswers,
               newsapi |-> {[kind |-> "error", items |-> <<>>],
                            [kind |-> "ok", items |-> <<fraud_item>>]},
               gnews |-> {[kind |-> "error", items |-> <<>>]}],
     classifier |-> {[kind |-> "ok", label |-> NEGATIVE, score |-> 90]},
     lexicon |-> {[kind |-> "ok", score |-> -60]},
     lists |-> [ofac |-> {ListFails}, opensanctions |-> {ListFails},
                uk |-> {ListFails}, pages |-> {ListFails}]]

NextNull ==
    \/ Click(NullDomain)
    \/ fetch_from_newsdata(NullDomain)
    \/ fetch_from_newsapi(NullDomain)
    \/ fetch_from_gnews(NullDomain)
    \/ fetch_ofac_list(NullDomain)
    \/ fetch_uk_list(NullDomain)
    \/ fetch_opensanctions(NullDomain)
    \/ fetch_opensanctions_all(NullDomain)
    \/ match_sanctions
    \/ search_sanctions
    \/ classify_article(NullDomain)
    \/ render_results

SpecNull == InitRun /\ [][NextNull]_vars

\* C21: whatever fields of the fetched articles are null, search_all and the
\* sort of its results complete without raising.
C21_NullFieldsNeverRaise == raised = ""


-----------------------------------------------------------------------------
\* The pages of OpenSanctions: a page request raises (a timeout too), is
\* answered with a status other than 200, with no results or with results.

NotOk == [kind |-> "status", names |-> <<>>]

PageAnswers ==
    {ListFails, NotOk, [kind |-> "ok", names |-> <<>>],
     [kind |-> "ok", names |-> <<VTB_Bank_Ltd>>],
     [kind |-> "ok", names |-> <<VTB_Bulgaria>>]}

PagesDomain ==
    [variants |-> Variants,
     names |-> {VTB_Bank},
     flags |-> {FALSE},
     sorts |-> {"Newest First"},
     models |-> {finbert},
     news |-> [newsdata |-> {[kind |-> "error", items |-> <<>>],
                             [kind |-> "ok", items |-> <<fraud_item>>]},
               newsapi |-> {[kind |-> "error", items |-> <<>>]},
               gnews |-> {[kind |-> "raise", items |-> <<>>]}],
     classifier |-> {[kind |-> "ok", label |-> NEGATIVE, score |-> 90]},
     lexicon |-> {[kind |-> "ok", score |-> -60]},
     lists |-> [ofac |-> {ListFails}, opensanctions |-> {ListFails},
                uk |-> {ListFails}, pages |-> PageAnswers]]

NextPages ==
    \/ Click(PagesDomain)
    \/ fetch_from_newsdata(PagesDomain)
    \/ fetch_from_newsapi(PagesDomain)
    \/ fetch_from_gnews(PagesDomain)
    \/ fetch_ofac_list(PagesDomain)
    \/ fetch_uk_list(PagesDomain)
    \/ fetch_opensanctions(PagesDomain)
    \/ fetch_opensanctions_all(PagesDomain)
    \/ match_sanctions
    \/ search_sanctions
    \/ classify_article(PagesDomain)
    \/ render_results

SpecPages == InitRun /\ [][NextPages]_vars

\* fetch_opensanctions_all has returned, and how its last page request ended
OsReturned == variant \in NormVariants /\ Len(list_status) = 3
OsOutcome == list_status[3]

\* C22: when a page request of OpenSanctions raises or is answered with a
\* status other than 200, the source contributes no name, whatever the
\* pages before it held.
C22_FailedPaginationContributesNothing ==
    OsReturned /\ OsOutcome \in {"raise", "status"} => os_result = <<>>


-----------------------------------------------------------------------------
\* fetch_opensanctions_all on its own, for every limit up to MaxLimit and
\* every max_items up to MaxItems, against every sequence of answers.

MaxLimit == 3
MaxItems == 6

PageResponses ==
    {ListFails, NotOk, [kind |-> "ok", names |-> <<>>],
     [kind |-> "ok", names |-> << <<"a">> >>]}

InitPaging ==
    /\ os_limit \in 1..MaxLimit
    /\ os_max_items \in 1..MaxItems
    /\ os_offset = 0 /\ os_names = <<>> /\ os_requests = <<>>
    /\ os_result = <<>>
    /\ os_pc = "loop"
    /\ IdleNorm /\ IdleHl /\ IdleFz /\ IdleCache /\ IdleRun

RequestPage ==
    /\ os_pc = "loop"
    /\ \E resp \in PageResponses :
        LET step == page_step(os_limit, os_max_items, os_offset, os_names, resp)
        IN  /\ os_requests' = Append(os_requests, request(os_offset, resp))
            /\ os_offset' = step.offset
            /\ os_names' = step.names
            /\ os_result' = step.result
            /\ os_pc' = IF step.done THEN "returned" ELSE "loop"
    /\ UNCHANGED <<os_limit, os_max_items, norm_vars, hl_vars, fz_vars,
                   cache_vars, run_vars>>

NextPaging == RequestPage

SpecPaging == InitPaging /\ [][NextPaging]_vars /\ WF_vars(RequestPage)

\* ceil(max_items / limit)
MostRequests == (os_max_items + os_limit - 1) \div os_limit

PagingInv ==
    LET n == Len(os_requests)
    IN  /\ n <= MostRequests
        /\ \A i \in 1..n :
            /\ os_requests[i].offset = (i - 1) * os_limit
            /\ os_requests[i].offset < os_max_items
            /\ i < n => os_requests[i].answer = "page"
        /\ os_pc = "returned" <=>
            /\ n > 0
            /\ \/ os_requests[n].answer # "page"
               \/ os_requests[n].offset + os_limit >= os_max_items

\* C26: fetch_opensanctions_all returns, whatever the limit and the answers:
\* it makes at most ceil(max_items / limit) page requests, at the offsets 0,
\* limit, 2*limit, ..., and none after an exception, a status other than 200,
\* an empty page or once the offset has reached max_items.
C26_PaginationTerminates == []PagingInv /\ <>(os_pc = "returned")

C26_Witness ==
    /\ os_pc = "returned"
    /\ os_limit = 2
    /\ Len(os_requests) = MostRequests
    /\ Len(os_requests) >= 3
    /\ os_requests[Len(os_requests)].answer = "page"


-----------------------------------------------------------------------------
\* Several searches in one process of v2_1, with time passing between them:
\* the list fetchers are read through st.cache_data.

MaxSearches == 3
MaxHours == 24

CacheDomain ==
    [variants |-> {"v2_1"},
     names |-> {VTB_Bank},
     flags |-> {FALSE},
     sorts |-> {"Newest First"},
     models |-> {finbert},
     news |-> [newsdata |-> {[kind |-> "ok", items |-> <<fraud_item>>]},
               newsapi |-> {[kind |-> "error", items |-> <<>>]},
               gnews |-> {[kind |-> "error", items |-> <<>>]}],
     classifier |-> {[kind |-> "ok", label |-> NEGATIVE, score |-> 90]},
     lexicon |-> {[kind |-> "ok", score |-> -60]},
     lists |-> [ofac |-> {ListFails, [kind |-> "ok", names |-> <<VTB_Bank_Ltd>>]},
                opensanctions |-> {ListFails},
                uk |-> {ListFails},
                pages |-> {NotOk, [kind |-> "ok", names |-> <<VTB_Bulgaria>>]}]]

\* the script runs again for the next click: the cache and the clock are the
\* process's, everything else starts afresh
SearchAgain ==
    /\ pc \in {"done", "crashed"}
    /\ searches + 1 < MaxSearches
    /\ searches' = searches + 1
    /\ variant' = "" /\ name' = <<>> /\ high_severity' = FALSE
    /\ model_choice' = <<>> /\ sort_option' = ""
    /\ pc' = "idle" /\ ran' = {} /\ raised' = ""
    /\ news_status' = <<>> /\ articles' = <<>> /\ art_idx' = 0
    /\ clf_log' = <<>> /\ results' = <<>> /\ returned' = <<>>
    /\ list_status' = <<>> /\ sanctioned' = <<>> /\ sanctions_names' = {}
    /\ scanned' = <<>> /\ matches' = <<>>
    /\ shown' = <<>> /\ shown_matches' = <<>> /\ export' = NoExport
    /\ os_offset' = 0 /\ os_names' = <<>> /\ os_requests' = <<>>
    /\ os_result' = <<>>
    /\ UNCHANGED <<cache, now, fetch_log, os_limit, os_max_items, os_pc,
                   norm_vars, hl_vars, fz_vars>>

\* half a TTL passes between two searches
Tick ==
    /\ pc = "idle"
    /\ now + TTL \div 2 <= MaxHours
    /\ now' = now + TTL \div 2
    /\ UNCHANGED <<cache, fetch_log, searches, os_vars, norm_vars, hl_vars,
                   fz_vars, run_vars>>

NextCache ==
    \/ Click(CacheDomain)
    \/ fetch_from_newsdata(CacheDomain)
    \/ fetch_from_newsapi(CacheDomain)
    \/ fetch_from_gnews(CacheDomain)
    \/ fetch_set(CacheDomain.lists.ofac, "ofac", "uk", TRUE)
    \/ fetch_set(CacheDomain.lists.uk, "uk", "opensanctions", TRUE)
    \/ fetch_opensanctions_all(CacheDomain)
    \/ match_sanctions
    \/ classify_article(CacheDomain)
    \/ render_results
    \/ SearchAgain
    \/ Tick

SpecCache == InitRun /\ [][NextCache]_vars

\* search_all has read the three lists in this search
ListsRead ==
    /\ variant = "v2_1"
    /\ Len(list_status) = 3
    /\ pc \in {"match", "classify", "render", "done"}

Last(seq) == seq[Len(seq)]

\* C23: a list fetcher does not run twice within 24 hours, and once a search
\* has read the lists each fetcher has run less than 24 hours ago: a search
\* that finds an entry of 24 hours or more has run the fetcher again.
C23_FetchedOncePerTTL ==
    \A f \in ListFetchers :
        /\ \A i \in 1..(Len(fetch_log[f]) - 1) :
            fetch_log[f][i + 1].at - fetch_log[f][i].at >= 24
        /\ ListsRead =>
            /\ fetch_log[f] # <<>>
            /\ now - Last(fetch_log[f]).at < 24
            /\ cache[f].stored /\ cache[f].at = Last(fetch_log[f]).at

C23_Witness ==
    /\ ListsRead
    /\ searches = 2
    /\ Len(fetch_log["ofac"]) = 2
    /\ fetch_log["ofac"][1].at = 0
    /\ fetch_log["ofac"][2].at = 24
    /\ now = 24
    /\ list_status[1] # "cached"


\* the place of a list fetcher's answer in list_status
StatusIndex(f) == IF f = "ofac" THEN 1 ELSE IF f = "uk" THEN 2 ELSE 3

\* C27: in v2_1 the empty list fetch_ofac_list or fetch_uk_list returns
\* after a caught exception is stored like any other value, and a search
\* made less than 24 hours later uses it without running the fetcher.
C27_FailedFetchIsCached ==
    ListsRead =>
        \A f \in {"ofac", "uk"} :
            /\ list_status[StatusIndex(f)] = "raise" =>
                cache[f] = [stored |-> TRUE, at |-> now, value |-> {}]
            /\ (Last(fetch_log[f]).outcome = "raise"
                    /\ now - Last(fetch_log[f]).at < 24
                    /\ now > Last(fetch_log[f]).at) =>
                /\ list_status[StatusIndex(f)] = "cached"
                /\ cache[f].value = {}

C27_Witness ==
    /\ ListsRead
    /\ searches = 1
    /\ now = 12
    /\ fetch_log["ofac"] = <<[at |-> 0, outcome |-> "raise"]>>
    /\ list_status[1] = "cached"
    /\ pc = "done"


-----------------------------------------------------------------------------
\* The table offered for download.

\* C24: in every variant the download has the columns Title, Source, Date,
\* Severity, Sentiment Score, Model Label, URL in this order, and a row for
\* every result the page shows.
C24_ExportColumnsAndRows ==
    Sorted /\ shown # <<>> =>
        /\ export.columns = <<"Title", "Source", "Date", "Severity",
                              "Sentiment Score", "Model Label", "URL">>
        /\ Len(export.rows) = Len(shown)


-----------------------------------------------------------------------------
\* The order and the shape of the results.

\* C25: in v2 and v2_1 the page shows every sanctions match before every
\* news result, under every sort option.
C25_SanctionsShownFirst ==
    Sorted /\ variant \in NormVariants =>
        \A i, j \in 1..Len(shown) :
            IsSanctionsResult(shown[i]) /\ ~IsSanctionsResult(shown[j]) => i < j

\* C28: what search_all returns: every result has the severity Low, Medium
\* or High; a sanctions match has the severity High, the source
\* SanctionsLists, no date, no url and a score from 0.6 to 1.0; and the
\* sanctions matches are before the news results.
C28_ReturnedResultsWellFormed ==
    pc = "render" =>
        /\ \A i \in 1..Len(results) :
            /\ results[i].severity \in {"Low", "Medium", "High"}
            /\ IsSanctionsResult(results[i]) =>
                /\ results[i].severity = "High"
                /\ results[i].date = <<>> /\ results[i].url = <<>>
                /\ results[i].score >= 60 /\ results[i].score <= 100
        /\ \A i, j \in 1..Len(results) :
            IsSanctionsResult(results[i]) /\ ~IsSanctionsResult(results[j])
                => i < j

C28_Witness ==
    /\ pc = "render"
    /\ \E i, j, k \in 1..Len(results) :
        /\ IsSanctionsResult(results[i]) /\ results[i].score = 100
        /\ IsSanctionsResult(results[j]) /\ results[j].score < 85
        /\ ~IsSanctionsResult(results[k]) /\ results[k].severity = "Low"

=============================================================================
